---- MODULE Spec2Model ----
(***************************************************************************)
(* A model of gejang's tree-walking interpreter (src/src/walker): the      *)
(* static resolver, the environment stack and the evaluator, driven by     *)
(* walker::interpret.  Expressions and statements are records; a token is  *)
(* a record of its type, lexeme and line, so that two expressions are the  *)
(* same key of the depth table exactly when the derived Hash/Eq of the     *)
(* source say so.                                                          *)
(***************************************************************************)
EXTENDS Integers, Sequences, FiniteSets, TLC

VARIABLES pc, source, rs, ri, st, si, errors, result, scanner, items, parser, statements,
          tokenvec, compiled, chunk, vm, evaluation

front == <<scanner, items, parser, statements>>
back == <<tokenvec, compiled, chunk, vm, evaluation>>
vars == <<pc, source, rs, ri, st, si, errors, result, front, back>>

(***************************************************************************)
(* Bounds of the model.                                                    *)
(***************************************************************************)
\* statements drawn for the body of a generated program
MaxStmts == 2
\* scan or parse errors one source can hold
MaxErrors == 1
\* loop iterations and calls one run may make before it is cut off
MaxFuel == 12
MaxArgs == 2

(***************************************************************************)
(* Small helpers: Option as a sequence of length 0 or 1, maps as           *)
(* functions.                                                              *)
(***************************************************************************)
None == <<>>
Some(x) == <<x>>
IsSome(o) == Len(o) = 1
IsNone(o) == Len(o) = 0
Unwrap(o) == o[1]

EmptyMap == [n \in {} |-> TRUE]
MapInsert(m, k, v) == [n \in DOMAIN m \cup {k} |-> IF n = k THEN v ELSE m[n]]
ContainsKey(m, k) == k \in DOMAIN m

(***************************************************************************)
(* Tokens (shared/scanner.rs) and the syntax tree (walker/ast.rs).         *)
(***************************************************************************)
Ident(lexeme, line) == [typ |-> "Identifier", lexeme |-> lexeme, line |-> line]
NumTok(n, line) == [typ |-> "Number", num |-> n, line |-> line]
StrTok(s, line) == [typ |-> "String", str |-> s, line |-> line]
KwTok(typ, line) == [typ |-> typ, line |-> line]
\* the token the parser supplies for an omitted for-condition
\* the keyword this, whose lexeme the interpreter looks up
ThisTok(line) == [typ |-> "This", lexeme |-> "this", line |-> line]
TRUE_TOKEN == KwTok("True", 0)

Assign(name, value) == [k |-> "Assign", name |-> name, value |-> value]
Binary(left, op, right) == [k |-> "Binary", left |-> left, op |-> op, right |-> right]
Call(callee, args) == [k |-> "Call", callee |-> callee, args |-> args]
Get(object, name) == [k |-> "Get", object |-> object, name |-> name]
Unary(op, right) == [k |-> "Unary", op |-> op, right |-> right]
Grouping(expr) == [k |-> "Grouping", expr |-> expr]
Literal(value) == [k |-> "Literal", value |-> value]
Logical(left, op, right) == [k |-> "Logical", left |-> left, op |-> op, right |-> right]
Set(object, name, value) == [k |-> "Set", object |-> object, name |-> name, value |-> value]
This(keyword) == [k |-> "This", keyword |-> keyword]
Variable(name) == [k |-> "Variable", name |-> name]

Block(stmts) == [k |-> "Block", stmts |-> stmts]
Break == [k |-> "Break"]
Class(name, methods) == [k |-> "Class", name |-> name, methods |-> methods]
Expression(expr) == [k |-> "Expression", expr |-> expr]
Function(name, params, body) == [k |-> "Function", name |-> name, params |-> params, body |-> body]
If(condition, then, els) == [k |-> "If", condition |-> condition, then |-> then, els |-> els]
PrintStmt(expr) == [k |-> "Print", expr |-> expr]
Return(value) == [k |-> "Return", value |-> value]
Var(name, initializer) == [k |-> "Var", name |-> name, initializer |-> initializer]
While(condition, body) == [k |-> "While", condition |-> condition, body |-> body]

(***************************************************************************)
(* The resolver (walker/resolver.rs).  Its state: the stack of scopes      *)
(* (each a map name -> defined?), the depth table locals (a list of        *)
(* <<expression, depth>> with one entry per key, keys compared by value as *)
(* the derived Hash/Eq do), the current function type, and the error of    *)
(* the first failed step (the ? operator returns it at once).  For stating *)
(* properties, resolved lists what each call of resolve_local found and    *)
(* the scopes it searched.                                                 *)
(***************************************************************************)
ResolverDefault == [scopes |-> <<>>, locals |-> <<>>, current_function_type |-> None,
                    error |-> None, resolved |-> <<>>]

ResolutionError(r, msg) == [r EXCEPT !.error = Some(msg)]

\* e?: the rest runs only when no error was returned
AndThen(r, F(_)) == IF IsSome(r.error) THEN r ELSE F(r)

ScopePush(r) == [r EXCEPT !.scopes = Append(@, EmptyMap)]
ScopePop(r) == [r EXCEPT !.scopes = IF Len(@) = 0 THEN @ ELSE SubSeq(@, 1, Len(@) - 1)]

\* a declare that accepts a name its scope already holds
DeclareAgain(r, name) ==
    IF Len(r.scopes) = 0 THEN r
    ELSE [r EXCEPT !.scopes[Len(r.scopes)] = MapInsert(@, name.lexeme, FALSE)]

Declare(r, name) ==
    IF Len(r.scopes) = 0 THEN r
    ELSE LET scope == r.scopes[Len(r.scopes)] IN
         IF ContainsKey(scope, name.lexeme)
         THEN ResolutionError(r, "already defined in this scope")
         ELSE [r EXCEPT !.scopes[Len(r.scopes)] = MapInsert(scope, name.lexeme, FALSE)]

Define(r, name) ==
    IF Len(r.scopes) = 0 THEN r
    ELSE [r EXCEPT !.scopes[Len(r.scopes)] = MapInsert(@, name.lexeme, TRUE)]

\* HashMap::insert on the depth table: one entry per key
LocalsInsert(locals, expr, depth) ==
    IF \E i \in 1..Len(locals) : locals[i][1] = expr
    THEN [i \in 1..Len(locals) |-> IF locals[i][1] = expr THEN <<expr, depth>> ELSE locals[i]]
    ELSE Append(locals, <<expr, depth>>)

\* HashMap::get on the depth table
LocalsGet(locals, expr) ==
    IF \E i \in 1..Len(locals) : locals[i][1] = expr
    THEN Some(locals[CHOOSE i \in 1..Len(locals) : locals[i][1] = expr][2])
    ELSE None

\* the scopes that contain the name, as 1-based positions from the outermost
Containing(r, name) == {i \in 1..Len(r.scopes) : ContainsKey(r.scopes[i], name.lexeme)}

\* a resolve_local that records how many scopes lie between the current one and the
\* innermost one that contains the name
ResolveLocalByDistance(r, expr, name) ==
    LET found == Containing(r, name) IN
    IF found = {} THEN [r EXCEPT !.resolved = Append(@, <<expr, None, r.scopes>>)]
    ELSE LET pos == CHOOSE i \in found : \A j \in found : j <= i IN
         [r EXCEPT !.locals = LocalsInsert(@, expr, Len(r.scopes) - pos),
                   !.resolved = Append(@, <<expr, Some(Len(r.scopes) - pos), r.scopes>>)]

\* rposition: the 0-based index, from the outermost scope, of the innermost
\* scope that contains the name
ResolveLocal(r, expr, name) ==
    LET found == Containing(r, name) IN
    IF found = {} THEN [r EXCEPT !.resolved = Append(@, <<expr, None, r.scopes>>)]
    ELSE LET pos == CHOOSE i \in found : \A j \in found : j <= i IN
         [r EXCEPT !.locals = LocalsInsert(@, expr, pos - 1),
                   !.resolved = Append(@, <<expr, Some(pos - 1), r.scopes>>)]

\* a resolver without the check of a read in the variable's own initializer
ReadsOwnInitializerNever(r, name) == FALSE

\* Expr::Variable: the innermost scope holds the name, declared and not yet defined
ReadsOwnInitializer(r, name) ==
    /\ Len(r.scopes) > 0
    /\ ContainsKey(r.scopes[Len(r.scopes)], name.lexeme)
    /\ r.scopes[Len(r.scopes)][name.lexeme] = FALSE

RECURSIVE ResolveExpression(_, _), ResolveExpressions(_, _)
ResolveExpression(r, expr) ==
    IF IsSome(r.error) THEN r
    ELSE CASE expr.k = "Assign" ->
                AndThen(ResolveExpression(r, expr.value),
                        LAMBDA r1 : ResolveLocal(r1, expr, expr.name))
           [] expr.k \in {"Binary", "Logical"} ->
                ResolveExpression(ResolveExpression(r, expr.left), expr.right)
           [] expr.k = "Call" ->
                ResolveExpressions(ResolveExpression(r, expr.callee), expr.args)
           [] expr.k = "Unary" -> ResolveExpression(r, expr.right)
           [] expr.k = "Grouping" -> ResolveExpression(r, expr.expr)
           [] expr.k = "Literal" -> r
           [] expr.k = "Variable" ->
                IF ReadsOwnInitializer(r, expr.name)
                THEN ResolutionError(r, "Cannot read local variable in its own initializer")
                ELSE ResolveLocal(r, expr, expr.name)
           [] expr.k = "Get" -> ResolveExpression(r, expr.object)
           \* resolve_expression has no arm for Set and This: nothing is recorded
           [] OTHER -> r

ResolveExpressions(r, exprs) ==
    IF IsSome(r.error) \/ Len(exprs) = 0 THEN r
    ELSE ResolveExpressions(ResolveExpression(r, Head(exprs)), Tail(exprs))

\* a function's end that leaves current_function_type as the function set it
FunctionExitKeepsType(r, enclosing_function_type) == ScopePop(r)

\* Stmt::Function, after the body: end_scope, and the enclosing function type is back
FunctionExit(r, enclosing_function_type) ==
    [ScopePop(r) EXCEPT !.current_function_type = enclosing_function_type]

RECURSIVE ResolveStatement(_, _), ResolveStatements(_, _), DeclareParams(_, _)
DeclareParams(r, params) ==
    IF IsSome(r.error) \/ Len(params) = 0 THEN r
    ELSE DeclareParams(AndThen(Declare(r, Head(params)),
                               LAMBDA r1 : Define(r1, Head(params))),
                       Tail(params))

ResolveStatement(r, stmt) ==
    IF IsSome(r.error) THEN r
    ELSE CASE stmt.k = "Block" ->
                AndThen(ResolveStatements(ScopePush(r), stmt.stmts), ScopePop)
           [] stmt.k = "Break" -> r
           [] stmt.k = "Expression" -> ResolveExpression(r, stmt.expr)
           [] stmt.k = "Function" ->
                LET enclosing_function_type == r.current_function_type
                    r0 == [r EXCEPT !.current_function_type = Some("Function")]
                    r1 == AndThen(Declare(r0, stmt.name), LAMBDA x : Define(x, stmt.name))
                    r2 == AndThen(r1, ScopePush)
                    r3 == DeclareParams(r2, stmt.params)
                    r4 == ResolveStatements(r3, stmt.body)
                IN  AndThen(r4, LAMBDA x : FunctionExit(x, enclosing_function_type))
           [] stmt.k = "If" ->
                LET r1 == ResolveStatement(ResolveExpression(r, stmt.condition), stmt.then)
                IN  IF IsSome(stmt.els) THEN ResolveStatement(r1, Unwrap(stmt.els)) ELSE r1
           [] stmt.k = "Print" -> ResolveExpression(r, stmt.expr)
           [] stmt.k = "Return" ->
                IF IsNone(r.current_function_type)
                THEN ResolutionError(r, "Cannot return from global scope")
                ELSE IF IsSome(stmt.value) THEN ResolveExpression(r, Unwrap(stmt.value))
                     ELSE r
           [] stmt.k = "Var" ->
                LET r1 == Declare(r, stmt.name)
                    r2 == IF IsSome(stmt.initializer)
                          THEN ResolveExpression(r1, Unwrap(stmt.initializer))
                          ELSE r1
                IN  AndThen(r2, LAMBDA x : Define(x, stmt.name))
           [] stmt.k = "While" ->
                ResolveStatement(ResolveExpression(r, stmt.condition), stmt.body)
           [] stmt.k = "Class" ->
                AndThen(Declare(r, stmt.name), LAMBDA x : Define(x, stmt.name))

ResolveStatements(r, stmts) ==
    IF IsSome(r.error) \/ Len(stmts) = 0 THEN r
    ELSE ResolveStatements(ResolveStatement(r, Head(stmts)), Tail(stmts))

(***************************************************************************)
(* Runtime values (walker/values.rs, with the Class and Instance fields    *)
(* the interpreter uses).  A LoxPointer is the index of a cell; a frame    *)
(* (Environment) maps a name to a cell; an EnvironmentStack is a sequence  *)
(* of frame handles, shared by every clone of it.                          *)
(***************************************************************************)
(***************************************************************************)
(* f64, as far as Value::Number needs it: a sign s and a magnitude n/d in   *)
(* lowest terms; d = 0 holds the infinities (n = 1) and NaN (n = 0), and   *)
(* zero keeps its sign.  Sums, differences and products of the small       *)
(* values modelled are exact; a quotient that no f64 holds exactly (its    *)
(* denominator is not a power of two) is outside the model.                *)
(***************************************************************************)
RECURSIVE Gcd(_, _)
Gcd(a, b) == IF b = 0 THEN a ELSE Gcd(b, a % b)

\* the f64 of an integer literal
F64(i) == [s |-> IF i < 0 THEN -1 ELSE 1, n |-> IF i < 0 THEN -i ELSE i, d |-> 1]
Ratio(s, n, d) == [s |-> s, n |-> n \div Gcd(n, d), d |-> d \div Gcd(n, d)]
Infinity(s) == [s |-> s, n |-> 1, d |-> 0]
NaN == [s |-> 1, n |-> 0, d |-> 0]
IsNaN(x) == x.d = 0 /\ x.n = 0
IsInfinite(x) == x.d = 0 /\ x.n = 1
IsZero(x) == x.d # 0 /\ x.n = 0

RECURSIVE IsPowerOfTwo(_)
IsPowerOfTwo(d) == d = 1 \/ (d > 1 /\ d % 2 = 0 /\ IsPowerOfTwo(d \div 2))
IsExact(x) == x.d = 0 \/ IsPowerOfTwo(x.d)

FNeg(x) == IF IsNaN(x) THEN x ELSE [x EXCEPT !.s = -@]

\* the sum of two finite values; a zero sum is -0 only for -0 + -0
FSum(x, y, num) ==
    IF num = 0 THEN [s |-> IF x.s = -1 /\ y.s = -1 THEN -1 ELSE 1, n |-> 0, d |-> 1]
    ELSE IF num < 0 THEN Ratio(-1, -num, x.d * y.d)
    ELSE Ratio(1, num, x.d * y.d)

FAdd(x, y) ==
    IF IsNaN(x) \/ IsNaN(y) THEN NaN
    ELSE IF IsInfinite(x) THEN (IF IsInfinite(y) /\ y.s # x.s THEN NaN ELSE x)
    ELSE IF IsInfinite(y) THEN y
    ELSE FSum(x, y, x.s * x.n * y.d + y.s * y.n * x.d)

FMul(x, y) ==
    IF IsNaN(x) \/ IsNaN(y) THEN NaN
    ELSE IF (IsInfinite(x) /\ IsZero(y)) \/ (IsZero(x) /\ IsInfinite(y)) THEN NaN
    ELSE IF IsInfinite(x) \/ IsInfinite(y) THEN Infinity(x.s * y.s)
    ELSE Ratio(x.s * y.s, x.n * y.n, x.d * y.d)

FDiv(x, y) ==
    IF IsNaN(x) \/ IsNaN(y) THEN NaN
    ELSE IF (IsInfinite(x) /\ IsInfinite(y)) \/ (IsZero(x) /\ IsZero(y)) THEN NaN
    ELSE IF IsInfinite(x) \/ IsZero(y) THEN Infinity(x.s * y.s)
    ELSE IF IsInfinite(y) THEN [s |-> x.s * y.s, n |-> 0, d |-> 1]
    ELSE Ratio(x.s * y.s, x.n * y.d, x.d * y.n)

\* < and == of f64: false whenever an operand is NaN; -0 equals 0
FLess(x, y) ==
    /\ ~IsNaN(x) /\ ~IsNaN(y)
    /\ IF IsInfinite(x) THEN x.s = -1 /\ x # y
       ELSE IF IsInfinite(y) THEN y.s = 1
       ELSE x.s * x.n * y.d < y.s * y.n * x.d
FEq(x, y) ==
    /\ ~IsNaN(x) /\ ~IsNaN(y)
    /\ IF IsInfinite(x) \/ IsInfinite(y) THEN x = y
       ELSE x.s * x.n * y.d = y.s * y.n * x.d

\* the digits after the point of r/d, r < d, d a power of two
RECURSIVE FracDigits(_, _)
FracDigits(r, d) ==
    IF r = 0 THEN "" ELSE ToString((r * 10) \div d) \o FracDigits((r * 10) % d, d)

\* f64::to_string
FDisplay(x) ==
    IF IsNaN(x) THEN "NaN"
    ELSE (IF x.s = -1 THEN "-" ELSE "")
         \o (IF IsInfinite(x) THEN "inf"
             ELSE ToString(x.n \div x.d)
                  \o (IF x.n % x.d = 0 THEN "" ELSE "." \o FracDigits(x.n % x.d, x.d)))

Number(n) == [t |-> "Number", n |-> n]
String(s) == [t |-> "String", s |-> s]
Boolean(b) == [t |-> "Boolean", b |-> b]
Nil == [t |-> "Nil"]
NativeFunction(name, arity) == [t |-> "NativeFunction", name |-> name, arity |-> arity]
FunctionValue(name, params, body, closure) ==
    [t |-> "Function", name |-> name, params |-> params, body |-> body, closure |-> closure]
ClassValue(name, methods) == [t |-> "Class", name |-> name, methods |-> methods]
InstanceValue(class, fields) == [t |-> "Instance", class |-> class, fields |-> fields]

ValueFromToken(token) ==
    CASE token.typ = "Number" -> Number(token.num)
      [] token.typ = "String" -> String(token.str)
      [] token.typ = "True" -> Boolean(TRUE)
      [] token.typ = "False" -> Boolean(FALSE)
      [] token.typ = "Nil" -> Nil

\* a rule of truth that takes 0 and the empty string for false as well
IsTruthyOfContent(v) ==
    CASE v.t = "Boolean" -> v.b
      [] v.t = "Nil" -> FALSE
      [] v.t = "Number" -> ~IsZero(v.n)
      [] v.t = "String" -> v.s # ""
      [] OTHER -> TRUE

IsTruthy(v) ==
    CASE v.t = "Boolean" -> v.b
      [] v.t = "Nil" -> FALSE
      [] OTHER -> TRUE

RECURSIVE Display(_, _)
Display(cells, v) ==
    CASE v.t = "Number" -> FDisplay(v.n)
      [] v.t = "String" -> v.s
      [] v.t = "Boolean" -> IF v.b THEN "true" ELSE "false"
      [] v.t = "Nil" -> "nil"
      [] v.t = "NativeFunction" ->
           "<native fun " \o v.name \o "/" \o ToString(v.arity) \o ">"
      [] v.t = "Function" -> "<fun " \o v.name \o "/" \o ToString(Len(v.params)) \o ">"
      [] v.t = "Class" -> "<cls " \o v.name \o ">"
      [] v.t = "Instance" -> "<instance of " \o Display(cells, cells[v.class]) \o ">"

(***************************************************************************)
(* Results: Ok(v) or Err(e); Return and Break travel as errors.            *)
(***************************************************************************)
OkUnit == [ok |-> TRUE]
Ok(v) == [ok |-> TRUE, v |-> v]
Err(e) == [ok |-> FALSE, e |-> e]
Unimplemented(msg) == [k |-> "Unimplemented", msg |-> msg]
UndefinedVariable(name) == [k |-> "UndefinedVariable", name |-> name]
NotCallable(typ) == [k |-> "NotCallable", typ |-> typ]
WrongNumberOfArgs(arity, got) == [k |-> "WrongNumberOfArgs", arity |-> arity, got |-> got]
OnlyInstancesHaveAttributes == [k |-> "OnlyInstancesHaveAttributes"]
ReturnSignal(value) == [k |-> "Return", value |-> value]
BreakSignal == [k |-> "Break"]
\* a Rust panic (expect, unreachable!, a RefCell borrow failure): the process aborts
Panic(msg) == [k |-> "Panic", msg |-> msg]
\* the stack ran out in a recursion without end: the process aborts
StackOverflow == [k |-> "StackOverflow"]
\* the run left the numbers the model holds
OutOfRange == [k |-> "OutOfRange"]
\* the run was cut off by the fuel bound of the model
OutOfFuel == [k |-> "OutOfFuel"]

\* RuntimeError's Display, the line that interpret writes for the error
ErrorDisplay(e) ==
    CASE e.k = "Unimplemented" -> e.msg
      [] e.k = "UndefinedVariable" -> "Undefined variable " \o e.name
      [] e.k = "NotCallable" -> "Value of type " \o e.typ \o " is not callable"
      [] e.k = "WrongNumberOfArgs" ->
           "Wrong number of arguments: expected " \o ToString(e.arity)
           \o ", got " \o ToString(e.got)
      [] e.k = "OnlyInstancesHaveAttributes" -> "Only instances have attributes"
      [] e.k = "Return" -> "Returning"
      [] e.k = "Break" -> "Breaking loop"

(***************************************************************************)
(* The interpreter's state: the active chain (environments), the frames    *)
(* and cells it shares with closures, the output sink; and, for stating    *)
(* properties, a log of the exits of blocks and calls and of the variable  *)
(* lookups, the stack of running calls and what each function declaration  *)
(* could see.                                                              *)
(***************************************************************************)
Alloc(s, v) == [s EXCEPT !.cells = Append(@, v)]
LastPtr(s) == Len(s.cells)
Record(s, event) == [s EXCEPT !.log = Append(@, event)]

EnvironmentGlobal == [clock |-> 1, tsp2cup |-> 2]

InterpreterNew(locals) ==
    [locals |-> locals,
     environments |-> <<1>>,
     frames |-> <<EnvironmentGlobal>>,
     cells |-> <<NativeFunction("clock", 0), NativeFunction("tsp2cup", 1)>>,
     output |-> <<>>,
     log |-> <<>>,
     callstack |-> <<>>,
     decls |-> <<>>,
     fuel |-> MaxFuel,
     order |-> "FalseFirst",
     borrows |-> 0,
     held |-> {},
     drained |-> FALSE]

EnvPush(s) ==
    [s EXCEPT !.frames = Append(@, EmptyMap),
              !.environments = Append(@, Len(s.frames) + 1)]

\* pop; drained records that a chain of one frame, or of none, was popped
EnvPop(s) ==
    [s EXCEPT !.environments = IF Len(@) = 0 THEN @ ELSE SubSeq(@, 1, Len(@) - 1),
              !.drained = @ \/ Len(s.environments) <= 1]

\* define into the last frame of the active chain; None when the chain is empty
EnvDefine(s, name, ptr) ==
    IF Len(s.environments) = 0 THEN None
    ELSE Some([s EXCEPT !.frames[s.environments[Len(s.environments)]] =
                            MapInsert(@, name, ptr)])

\* the position in the chain that a depth denotes: d + 1 counted from 0, the
\* global frame when no depth is recorded
EnvIndex(depth) == IF IsSome(depth) THEN Unwrap(depth) + 2 ELSE 1

LookupEvent(s, ev, name, depth, outcome, frame) ==
    [ev |-> ev, name |-> name, depth |-> depth, outcome |-> outcome, frame |-> frame,
     call |-> IF Len(s.callstack) = 0 THEN None ELSE Some(s.callstack[Len(s.callstack)]),
     global |-> ContainsKey(s.frames[1], name),
     shadow |-> \E i \in 2..Len(s.environments) :
                   ContainsKey(s.frames[s.environments[i]], name),
     local |-> /\ Len(s.callstack) > 0
               /\ \E i \in 1..Len(s.environments) :
                     /\ i > Len(s.callstack[Len(s.callstack)].closure)
                     /\ ContainsKey(s.frames[s.environments[i]], name)]

EnvAssign(s, name, ptr, depth) ==
    LET i == EnvIndex(depth) IN
    IF i > Len(s.environments)
    THEN [st |-> Record(s, LookupEvent(s, "assign", name, depth, "Panic", 0)),
          r |-> Err(Panic("Environment lookup resolved to missing depth during assignment"))]
    ELSE LET f == s.environments[i]
             known == ContainsKey(s.frames[f], name)
             s1 == [s EXCEPT !.frames[f] = MapInsert(@, name, ptr)]
         IN  [st |-> Record(s1, LookupEvent(s, "assign", name, depth,
                                            IF known THEN "Ok" ELSE "Created", f)),
              r |-> Ok(ptr)]

\* a get that, without a depth, reads the innermost frame of the chain
EnvGetInnermost(s, name, depth) ==
    LET i == IF IsSome(depth) THEN EnvIndex(depth) ELSE Len(s.environments) IN
    IF i > Len(s.environments)
    THEN [st |-> Record(s, LookupEvent(s, "get", name, depth, "Panic", 0)),
          r |-> Err(Panic("Environment lookup resolved to missing depth during lookup"))]
    ELSE LET f == s.environments[i] IN
         IF ContainsKey(s.frames[f], name)
         THEN [st |-> Record(s, LookupEvent(s, "get", name, depth, "Ok", f)),
               r |-> Ok(s.frames[f][name])]
         ELSE [st |-> Record(s, LookupEvent(s, "get", name, depth, "UndefinedVariable", f)),
               r |-> Err(UndefinedVariable(name))]

EnvGet(s, name, depth) ==
    LET i == EnvIndex(depth) IN
    IF i > Len(s.environments)
    THEN [st |-> Record(s, LookupEvent(s, "get", name, depth, "Panic", 0)),
          r |-> Err(Panic("Environment lookup resolved to missing depth during lookup"))]
    ELSE LET f == s.environments[i] IN
         IF ContainsKey(s.frames[f], name)
         THEN [st |-> Record(s, LookupEvent(s, "get", name, depth, "Ok", f)),
               r |-> Ok(s.frames[f][name])]
         ELSE [st |-> Record(s, LookupEvent(s, "get", name, depth, "UndefinedVariable", f)),
               r |-> Err(UndefinedVariable(name))]

(***************************************************************************)
(* The evaluator (walker/interpreter.rs): execute and evaluate, each       *)
(* returning the state it leaves and its Result.                           *)
(***************************************************************************)
OpDisplay(typ) ==
    CASE typ = "Plus" -> "+" [] typ = "Minus" -> "-" [] typ = "Star" -> "*"
      [] typ = "Slash" -> "/" [] typ = "Greater" -> ">" [] typ = "GreaterEqual" -> ">="
      [] typ = "Less" -> "<" [] typ = "LessEqual" -> "<=" [] typ = "Bang" -> "!"
      [] typ = "And" -> "and" [] typ = "Or" -> "or" [] OTHER -> typ

\* a quotient, when the model holds it
Quotient(x) == IF IsExact(x) THEN Ok(Number(x)) ELSE Err(OutOfRange)

(***************************************************************************)
(* l == r of two values, the derived PartialEq: by kind, then field by     *)
(* field in the order of declaration, through every Rc and RefCell to the  *)
(* value behind it.  A closure is compared frame by frame, a frame or a    *)
(* method table entry by entry in the order its HashMap iterates, which    *)
(* the run does not fix: order says whether a map that holds both an       *)
(* unequal entry and an entry whose comparison never ends meets the first  *)
(* ("FalseFirst") or the second.  visiting holds the pairs of cells whose  *)
(* comparison is in progress; meeting one of them again is a recursion     *)
(* without end ("Overflow").                                               *)
(***************************************************************************)
Orders == {"FalseFirst", "OverflowFirst"}

Truth(b) == IF b THEN "True" ELSE "False"

\* Iterator::all over the entries, taken in the order that order stands for
AllEntries(order, rs0) ==
    IF order = "FalseFirst"
    THEN (IF "False" \in rs0 THEN "False" ELSE IF "Overflow" \in rs0 THEN "Overflow"
          ELSE "True")
    ELSE (IF "Overflow" \in rs0 THEN "Overflow" ELSE IF "False" \in rs0 THEN "False"
          ELSE "True")

RECURSIVE ValueEq(_, _, _, _), PtrEq(_, _, _, _), MapEq(_, _, _, _),
          ChainEq(_, _, _, _, _)

PtrEq(s, p, q, visiting) ==
    IF <<p, q>> \in visiting THEN "Overflow"
    ELSE ValueEq(s, s.cells[p], s.cells[q], visiting \cup {<<p, q>>})

MapEq(s, m1, m2, visiting) ==
    IF Cardinality(DOMAIN m1) # Cardinality(DOMAIN m2) THEN "False"
    ELSE AllEntries(s.order,
                    {IF ContainsKey(m2, n) THEN PtrEq(s, m1[n], m2[n], visiting)
                     ELSE "False" : n \in DOMAIN m1})

\* the frames of two chains of one length, from the i-th on
ChainEq(s, c1, c2, i, visiting) ==
    IF i > Len(c1) THEN "True"
    ELSE IF MapEq(s, s.frames[c1[i]], s.frames[c2[i]], visiting) # "True"
    THEN MapEq(s, s.frames[c1[i]], s.frames[c2[i]], visiting)
    ELSE ChainEq(s, c1, c2, i + 1, visiting)

ValueEq(s, a, b, visiting) ==
    IF a.t # b.t THEN "False"
    ELSE CASE a.t = "Number" -> Truth(FEq(a.n, b.n))
           [] a.t = "Function" ->
                IF a.name # b.name \/ a.params # b.params \/ a.body # b.body
                   \/ Len(a.closure) # Len(b.closure)
                THEN "False"
                ELSE ChainEq(s, a.closure, b.closure, 1, visiting)
           [] a.t = "Class" ->
                IF a.name # b.name THEN "False"
                ELSE MapEq(s, a.methods, b.methods, visiting)
           [] a.t = "Instance" ->
                IF PtrEq(s, a.class, b.class, visiting) # "True"
                THEN PtrEq(s, a.class, b.class, visiting)
                ELSE MapEq(s, a.fields, b.fields, visiting)
           [] OTHER -> Truth(a = b)

\* Value::Boolean(l == r), Value::Boolean(l != r)
Equality(eq, negate) ==
    IF eq = "Overflow" THEN Err(StackOverflow)
    ELSE Ok(Boolean((eq = "True") # negate))

\* the arms of the binary operator table, in the order of the match
BinaryArms(s, l, op, r, visiting) ==
    CASE l.t = "Number" /\ r.t = "Number" /\ op = "Plus" -> Ok(Number(FAdd(l.n, r.n)))
      [] l.t = "Number" /\ r.t = "Number" /\ op = "Minus" ->
           Ok(Number(FAdd(l.n, FNeg(r.n))))
      [] l.t = "Number" /\ r.t = "Number" /\ op = "Star" -> Ok(Number(FMul(l.n, r.n)))
      [] l.t = "Number" /\ r.t = "Number" /\ op = "Slash" -> Quotient(FDiv(l.n, r.n))
      [] l.t = "Number" /\ r.t = "Number" /\ op = "Greater" ->
           Ok(Boolean(FLess(r.n, l.n)))
      [] l.t = "Number" /\ r.t = "Number" /\ op = "GreaterEqual" ->
           Ok(Boolean(FLess(r.n, l.n) \/ FEq(l.n, r.n)))
      [] l.t = "Number" /\ r.t = "Number" /\ op = "Less" -> Ok(Boolean(FLess(l.n, r.n)))
      [] l.t = "Number" /\ r.t = "Number" /\ op = "LessEqual" ->
           Ok(Boolean(FLess(l.n, r.n) \/ FEq(l.n, r.n)))
      [] l.t = "String" /\ r.t = "String" /\ op = "Plus" -> Ok(String(l.s \o r.s))
      [] op = "EqualEqual" -> Equality(ValueEq(s, l, r, visiting), FALSE)
      [] op = "BangEqual" -> Equality(ValueEq(s, l, r, visiting), TRUE)
      [] OTHER -> Err(Unimplemented("Binary operation not implemented: " \o l.t \o " "
                                    \o OpDisplay(op) \o " " \o r.t))

BinaryOp(s, lp, op, rp) == BinaryArms(s, s.cells[lp], op, s.cells[rp], {<<lp, rp>>})

\* what a function declaration can see: the bindings of the frames of its closure
Visible(s, chain) ==
    UNION {{<<chain[i], n>> : n \in DOMAIN s.frames[chain[i]]} : i \in 1..Len(chain)}

\* a step's outcome: the state it leaves and its Result
Outcome(s, r) == [st |-> s, r |-> r]
\* a value put in a new cell (Value::into)
Fresh(s, v) == Outcome(Alloc(s, v), Ok(Len(s.cells) + 1))
\* x?: the rest runs only when x is Ok
Then(x, F(_)) == IF x.r.ok THEN F(x) ELSE x
\* the value a LoxPointer refers to
Deref(x) == x.st.cells[x.r.v]

\* self.environments.borrow(), held while an assignment evaluates its value, and its
\* release; replace and borrow_mut of self.environments panic while it is held
Borrowed(s) == [s EXCEPT !.borrows = @ + 1]
Released(x) == [st |-> [x.st EXCEPT !.borrows = @ - 1], r |-> x.r]
AlreadyBorrowed(s) == [st |-> s, r |-> Err(Panic("already borrowed: BorrowMutError"))]

\* the RefMut of a value's cell, which Expr::Set holds from borrow_mut to the end of its
\* arm; borrow and borrow_mut of the cell panic while it is held
Hold(s, ptr) == [s EXCEPT !.held = @ \cup {ptr}]
Unhold(x, ptr) ==
    IF ~x.r.ok /\ x.r.e.k = "Panic" THEN x
    ELSE [st |-> [x.st EXCEPT !.held = @ \ {ptr}], r |-> x.r]
AlreadyMutablyBorrowed(s) ==
    [st |-> s, r |-> Err(Panic("already mutably borrowed: BorrowError"))]
\* y, after borrow() of the cells ptrs
Borrowing(s, ptrs, y) == IF ptrs \cap s.held # {} THEN AlreadyMutablyBorrowed(s) ELSE y

\* define in the active chain; the chain is never empty when the evaluator defines
Defined(s, name, ptr) ==
    IF IsSome(EnvDefine(s, name, ptr))
    THEN Outcome(Unwrap(EnvDefine(s, name, ptr)), OkUnit)
    ELSE Outcome(s, Err(Panic("Empty environment stack")))

RECURSIVE DefineParams(_, _, _)
DefineParams(s, params, a) ==
    IF Len(params) = 0 \/ Len(a) = 0 THEN s
    ELSE DefineParams(Defined(s, Head(params), Head(a)).st, Tail(params), Tail(a))

ExitKind(r) == IF r.ok THEN "Ok" ELSE r.e.k

\* Stmt::Block, after the statements: the frame is popped when none of them failed
BlockExit(x) == IF x.r.ok THEN EnvPop(x.st) ELSE x.st

BlockDone(before, x, s1) ==
    Outcome(Record(s1, [ev |-> "block", before |-> before, after |-> s1.environments,
                        exit |-> ExitKind(x.r)]),
            x.r)

\* a call that defines the parameters in the innermost frame of the closure itself
CallEnterNoPush(s, c, callee, a) ==
    DefineParams([s EXCEPT !.environments = callee.closure,
                           !.fuel = @ - 1,
                           !.callstack = Append(@, [fn |-> c,
                                                    closure |-> callee.closure])],
                 callee.params, a)

\* Expr::Call on a user function, before the body: the closure replaces the active
\* chain, a frame is pushed and the parameters are defined in it
CallEnter(s, c, callee, a) ==
    DefineParams(EnvPush([s EXCEPT !.environments = callee.closure,
                                   !.fuel = @ - 1,
                                   !.callstack = Append(@, [fn |-> c,
                                                            closure |-> callee.closure])]),
                 callee.params, a)

\* a call's end that pops the parameter frame and stays in the closure's chain
CallExitNoRestore(s, old_env) == EnvPop(s)

\* Expr::Call on a user function, after the body: pop, then restore the caller's chain
CallExit(s, old_env) == [EnvPop(s) EXCEPT !.environments = old_env]

CallLeave(s, c, callee, old_env, exit, res) ==
    Record([s EXCEPT !.callstack = SubSeq(@, 1, Len(@) - 1)],
           [ev |-> "call", fn |-> c, before |-> old_env, after |-> s.environments,
            closure |-> callee.closure, stored |-> s.cells[c].closure, exit |-> exit,
            result |-> res, out |-> Len(s.output)])

\* rv.map(|_| Nil), and the match that turns a Return into the call's value
CallResult(s, r) ==
    IF r.ok THEN Fresh(s, Nil)
    ELSE IF r.e.k = "Return" THEN Outcome(s, Ok(r.e.value))
    ELSE Outcome(s, r)

CallLogged(c, callee, old_env, exit, x) ==
    Outcome(CallLeave(x.st, c, callee, old_env, exit, x.r), x.r)

CallDone(c, callee, old_env, rv) ==
    CallLogged(c, callee, old_env, ExitKind(rv.r),
               CallResult(CallExit(rv.st, old_env), rv.r))

\* Expr::Call on a class whose init is a function, before init's body
InitEnter(s, init, instance, a) ==
    DefineParams(EnvPush(Defined(EnvPush([s EXCEPT !.environments = init.closure,
                                                   !.fuel = @ - 1]),
                                 "this", instance).st),
                 init.params, a)

\* after init's body: an error has left through ?, before the pops and the restore
InitDone(instance, old_env, rv) ==
    IF ~rv.r.ok THEN rv
    ELSE Outcome([EnvPop(EnvPop(rv.st)) EXCEPT !.environments = old_env], Ok(instance))

BinaryResult(s, x) == IF x.ok THEN Fresh(s, x.v) ELSE Outcome(s, x)

CallNative(s, callee, a) ==
    IF Len(a) # callee.arity
    THEN Outcome(s, Err(WrongNumberOfArgs(callee.arity, Len(a))))
    ELSE IF callee.name = "clock" THEN Fresh(s, Number(F64(0)))
    ELSE IF s.cells[a[1]].t = "Number"
    THEN BinaryResult(s, Quotient(FDiv(s.cells[a[1]].n, F64(48))))
    ELSE Outcome(s, Err(Panic("unreachable")))

\* Expr::Call, after the callee has been applied to the arguments
Applied(s, c, a, x) ==
    Outcome(Record(x.st, [ev |-> "apply", callee |-> s.cells[c], got |-> Len(a),
                          before |-> s.environments, after |-> x.st.environments,
                          mark |-> Len(s.log), result |-> x.r]),
            x.r)

\* what a get of a method did: the method found, the receiver, the cell of the value
\* it yields, and the cells and frames before and after
Bound(s, v, o, x) ==
    Outcome(Record(x.st, [ev |-> "bind", method |-> v, object |-> o, bound |-> x.r.v,
                          cells |-> s.cells, frames |-> s.frames,
                          cellsAfter |-> x.st.cells, framesAfter |-> x.st.frames]),
            x.r)

\* a get that defines this in the innermost frame of the method's own closure
BindThisInPlace(s, v, o) ==
    Bound(s, v, o,
          Fresh([s EXCEPT !.frames[v.closure[Len(v.closure)]] = MapInsert(@, "this", o)], v))

\* Expr::Get on a function: a copy whose closure has one more frame, holding this
BindThis(s, v, o) ==
    Bound(s, v, o,
          Fresh([s EXCEPT !.frames = Append(@, [this |-> o])],
                [v EXCEPT !.closure = Append(@, Len(s.frames) + 1)]))

\* a get that yields nil for a name the instance does not have
GetAttributeOrNil(s, o, name) ==
    IF s.cells[o].t # "Instance" THEN Outcome(s, Err(OnlyInstancesHaveAttributes))
    ELSE IF ~ContainsKey(s.cells[o].fields, name) THEN Fresh(s, Nil)
    ELSE IF s.cells[s.cells[o].fields[name]].t # "Function"
    THEN Outcome(s, Ok(s.cells[o].fields[name]))
    ELSE BindThis(s, s.cells[s.cells[o].fields[name]], o)

GetAttribute(s, o, name) ==
    IF s.cells[o].t # "Instance" THEN Outcome(s, Err(OnlyInstancesHaveAttributes))
    ELSE IF ~ContainsKey(s.cells[o].fields, name)
    THEN Outcome(s, Err(UndefinedVariable(name)))
    ELSE IF s.cells[s.cells[o].fields[name]].t # "Function"
    THEN Outcome(s, Ok(s.cells[o].fields[name]))
    ELSE BindThis(s, s.cells[s.cells[o].fields[name]], o)

\* a set that writes the field into every instance there is
SetAttributeOfAll(s, o, name, v) ==
    Outcome([s EXCEPT !.cells = [c \in DOMAIN s.cells |->
                                    IF s.cells[c].t = "Instance"
                                    THEN [s.cells[c] EXCEPT !.fields = MapInsert(@, name, v)]
                                    ELSE s.cells[c]]],
            Ok(v))

\* fields.insert(name, v) on the instance in cell o
SetAttribute(s, o, name, v) ==
    Outcome([s EXCEPT !.cells[o].fields = MapInsert(@, name, v)], Ok(v))

SetDone(s, o, name, x) ==
    Outcome(Record(x.st, [ev |-> "set", object |-> o, name |-> name, value |-> x.r.v,
                          before |-> s.cells, after |-> x.st.cells]),
            x.r)

UnaryOp(s, op, v) ==
    IF op = "Minus"
    THEN IF v.t = "Number" THEN Fresh(s, Number(FNeg(v.n)))
         ELSE Outcome(s, Err(Unimplemented("Cannot negate non-number")))
    ELSE Fresh(s, Boolean(~IsTruthy(v)))

\* a logical operator that never decides by its left operand alone
LeftDecidesNever(op, v) == FALSE

\* Expr::Logical: the left operand decides an or when truthy, an and when falsy
LeftDecides(op, v) == IF op = "Or" THEN IsTruthy(v) ELSE ~IsTruthy(v)

\* the closure a function or method declaration makes of the active chain
Closure(s, decl) ==
    FunctionValue(decl.name.lexeme, [i \in 1..Len(decl.params) |-> decl.params[i].lexeme],
                  decl.body, s.environments)

\* a function declaration whose closure holds copies of the frames of the chain
DeclareFunctionByCopy(s, stmt, d) ==
    Outcome([d.st EXCEPT
               !.frames = @ \o [i \in 1..Len(s.environments) |-> @[s.environments[i]]],
               !.cells[Len(s.cells) + 1].closure =
                   [i \in 1..Len(s.environments) |-> Len(d.st.frames) + i],
               !.decls = Append(@, [fn |-> Len(s.cells) + 1,
                                    chain |-> s.environments,
                                    visible |-> Visible(d.st, s.environments)])],
            d.r)

DeclareFunction(s, stmt, d) ==
    Outcome([d.st EXCEPT !.decls = Append(@, [fn |-> Len(s.cells) + 1,
                                              chain |-> s.environments,
                                              visible |-> Visible(d.st, s.environments)])],
            d.r)

\* the closures of a class's methods, each a new cell
RECURSIVE MakeMethods(_, _, _)
MakeMethods(s, methods, acc) ==
    IF Len(methods) = 0 THEN [st |-> s, methods |-> acc]
    ELSE MakeMethods(Alloc(s, Closure(s, Head(methods))), Tail(methods),
                     MapInsert(acc, Head(methods).name.lexeme, Len(s.cells) + 1))

DeclareClass(name, m) ==
    Defined(Alloc(m.st, ClassValue(name, m.methods)), name, Len(m.st.cells) + 1)

RECURSIVE Execute(_, _), ExecuteAll(_, _), WhileLoop(_, _), Evaluate(_, _),
          EvaluateArgs(_, _, _)

\* a set whose value is evaluated before the cell of the instance is borrowed
SetValueUnheld(s, o, value) == Evaluate(s, value)

\* Expr::Set, the value: it is evaluated inside the arm that holds the RefMut of the
\* instance's cell
SetValue(s, o, value) == Unhold(Evaluate(Hold(s, o), value), o)

\* Interpreter::interpret: every statement in order, up to the first error
ExecuteAll(s, stmts) ==
    IF Len(stmts) = 0 THEN Outcome(s, OkUnit)
    ELSE Then(Execute(s, Head(stmts)), LAMBDA x : ExecuteAll(x.st, Tail(stmts)))

\* a turn of the loop: the loop goes on from the outcome x, or ends with it
LoopAgain(x) == [again |-> TRUE, x |-> x]
LoopEnd(x) == [again |-> FALSE, x |-> x]

\* a loop that a Return out of its body ends like a Break
WhileBodyEndsOnReturn(stmt, b) ==
    IF b.r.ok THEN LoopAgain(b)
    ELSE IF b.r.e.k \in {"Break", "Return"} THEN LoopEnd(Outcome(b.st, OkUnit))
    ELSE LoopEnd(b)

\* a loop that hands a Break out of its body on to whatever encloses the loop
WhileBodyPassesBreak(stmt, b) ==
    IF b.r.ok THEN LoopAgain(b) ELSE LoopEnd(b)

WhileBody(stmt, b) ==
    IF b.r.ok THEN LoopAgain(b)
    ELSE IF b.r.e.k = "Break" THEN LoopEnd(Outcome(b.st, OkUnit))
    ELSE LoopEnd(b)

\* the condition c is there: the loop ends, or the body runs
WhileTested(stmt, c) ==
    IF ~c.r.ok THEN LoopEnd(c)
    ELSE IF ~IsTruthy(Deref(c)) THEN LoopEnd(Outcome(c.st, OkUnit))
    ELSE IF c.st.fuel = 0 THEN LoopEnd(Outcome(c.st, Err(OutOfFuel)))
    ELSE WhileBody(stmt, Execute([c.st EXCEPT !.fuel = @ - 1], stmt.body))

WhileTurn(turn, stmt) == IF turn.again THEN WhileLoop(turn.x.st, stmt) ELSE turn.x

WhileLoop(s, stmt) == WhileTurn(WhileTested(stmt, Evaluate(s, stmt.condition)), stmt)

\* Stmt::While, after the loop
WhileDone(x) ==
    Outcome(Record(x.st, [ev |-> "loop", exit |-> ExitKind(x.r), out |-> Len(x.st.output)]),
            x.r)

ExecuteBlock(s, x) == BlockDone(s.environments, x, BlockExit(x))

Execute(s, stmt) ==
    CASE stmt.k = "Block" ->
           IF s.borrows > 0 THEN AlreadyBorrowed(s)
           ELSE ExecuteBlock(s, ExecuteAll(EnvPush(s), stmt.stmts))
      [] stmt.k = "Expression" ->
           Then(Evaluate(s, stmt.expr), LAMBDA x : Outcome(x.st, OkUnit))
      [] stmt.k = "Function" ->
           DeclareFunction(s, stmt, Defined(Alloc(s, Closure(s, stmt)), stmt.name.lexeme,
                                            Len(s.cells) + 1))
      [] stmt.k = "Class" ->
           Then(Defined(Alloc(s, Nil), stmt.name.lexeme, Len(s.cells) + 1), LAMBDA d :
                DeclareClass(stmt.name.lexeme, MakeMethods(d.st, stmt.methods, EmptyMap)))
      [] stmt.k = "If" ->
           Then(Evaluate(s, stmt.condition), LAMBDA c :
                IF IsTruthy(Deref(c)) THEN Execute(c.st, stmt.then)
                ELSE IF IsSome(stmt.els) THEN Execute(c.st, Unwrap(stmt.els))
                ELSE Outcome(c.st, OkUnit))
      [] stmt.k = "Print" ->
           Then(Evaluate(s, stmt.expr), LAMBDA x :
                Outcome([x.st EXCEPT !.output = Append(@, Display(x.st.cells, Deref(x)))],
                        OkUnit))
      [] stmt.k = "Var" ->
           Then(IF IsSome(stmt.initializer) THEN Evaluate(s, Unwrap(stmt.initializer))
                ELSE Fresh(s, Nil),
                LAMBDA x : Defined(x.st, stmt.name.lexeme, x.r.v))
      [] stmt.k = "While" -> WhileDone(WhileLoop(s, stmt))
      [] stmt.k = "Return" ->
           Then(IF IsSome(stmt.value) THEN Evaluate(s, Unwrap(stmt.value))
                ELSE Fresh(s, Nil),
                LAMBDA x : Outcome(Record(x.st, [ev |-> "return", value |-> x.r.v,
                                                 bare |-> IsNone(stmt.value),
                                                 out |-> Len(x.st.output)]),
                                   Err(ReturnSignal(x.r.v))))
      [] stmt.k = "Break" ->
           Outcome(Record(s, [ev |-> "break", out |-> Len(s.output)]), Err(BreakSignal))

\* the arguments in order, up to the first error
EvaluateArgs(s, args, acc) ==
    IF Len(args) = 0 THEN Outcome(s, Ok(acc))
    ELSE Then(Evaluate(s, Head(args)), LAMBDA x :
              EvaluateArgs(x.st, Tail(args), Append(acc, x.r.v)))

CallFunction(s, c, callee, a) ==
    IF Len(a) # Len(callee.params)
    THEN Outcome(s, Err(WrongNumberOfArgs(Len(callee.params), Len(a))))
    ELSE IF s.borrows > 0 THEN AlreadyBorrowed(s)
    ELSE IF s.fuel = 0 THEN Outcome(s, Err(OutOfFuel))
    ELSE CallDone(c, callee, s.environments,
                  ExecuteAll(CallEnter(s, c, callee, a), callee.body))

CallInit(s, init, instance, a) ==
    IF Len(a) # Len(init.params)
    THEN Outcome(s, Err(WrongNumberOfArgs(Len(init.params), Len(a))))
    ELSE IF s.borrows > 0 THEN AlreadyBorrowed(s)
    ELSE IF s.fuel = 0 THEN Outcome(s, Err(OutOfFuel))
    ELSE InitDone(instance, s.environments,
                  ExecuteAll(InitEnter(s, init, instance, a), init.body))

\* the instance is a new cell holding a copy of the class and of its method table
CallClass(s, callee, a) ==
    IF ContainsKey(callee.methods, "init") /\ s.cells[callee.methods["init"]].t = "Function"
    THEN CallInit(Alloc(Alloc(s, callee), InstanceValue(Len(s.cells) + 1, callee.methods)),
                  s.cells[callee.methods["init"]], Len(s.cells) + 2, a)
    ELSE Fresh(Alloc(s, callee), InstanceValue(Len(s.cells) + 1, callee.methods))

CallValue(s, c, a) ==
    CASE s.cells[c].t = "NativeFunction" -> CallNative(s, s.cells[c], a)
      [] s.cells[c].t = "Function" -> CallFunction(s, c, s.cells[c], a)
      [] s.cells[c].t = "Class" -> CallClass(s, s.cells[c], a)
      [] OTHER -> Outcome(s, Err(NotCallable(Display(s.cells, s.cells[c]))))

Evaluate(s, expr) ==
    CASE expr.k = "Literal" -> Fresh(s, ValueFromToken(expr.value))
      [] expr.k = "Grouping" -> Evaluate(s, expr.expr)
      [] expr.k = "Unary" ->
           Then(Evaluate(s, expr.right), LAMBDA x :
                Borrowing(x.st, {x.r.v}, UnaryOp(x.st, expr.op.typ, Deref(x))))
      [] expr.k = "Binary" ->
           Then(Evaluate(s, expr.left), LAMBDA l :
                Then(Evaluate(l.st, expr.right), LAMBDA r :
                     Borrowing(r.st, {l.r.v, r.r.v},
                               BinaryResult(r.st,
                                            BinaryOp(r.st, l.r.v, expr.op.typ, r.r.v)))))
      [] expr.k = "Logical" ->
           Then(Evaluate(s, expr.left), LAMBDA l :
                IF l.r.v \in l.st.held THEN AlreadyMutablyBorrowed(l.st)
                ELSE IF LeftDecides(expr.op.typ, Deref(l)) THEN l
                ELSE Evaluate(l.st, expr.right))
      [] expr.k = "Variable" ->
           EnvGet(s, expr.name.lexeme, LocalsGet(s.locals, expr))
      [] expr.k = "Assign" ->
           Then(Released(Evaluate(Borrowed(s), expr.value)), LAMBDA x :
                EnvAssign(x.st, expr.name.lexeme, x.r.v, LocalsGet(s.locals, expr)))
      [] expr.k = "Set" ->
           Then(Evaluate(s, expr.object), LAMBDA o :
                IF o.r.v \in o.st.held THEN AlreadyBorrowed(o.st)
                ELSE IF Deref(o).t # "Instance"
                THEN Outcome(o.st, Err(OnlyInstancesHaveAttributes))
                ELSE Then(SetValue(o.st, o.r.v, expr.value), LAMBDA v :
                          SetDone(v.st, o.r.v, expr.name.lexeme,
                                  SetAttribute(v.st, o.r.v, expr.name.lexeme, v.r.v))))
      [] expr.k = "Call" ->
           Then(Evaluate(s, expr.callee), LAMBDA c :
                Then(EvaluateArgs(c.st, expr.args, <<>>), LAMBDA a :
                     Borrowing(a.st, {c.r.v},
                               Applied(a.st, c.r.v, a.r.v, CallValue(a.st, c.r.v, a.r.v)))))
      [] expr.k = "Get" ->
           Then(Evaluate(s, expr.object), LAMBDA o :
                Borrowing(o.st, {o.r.v}, GetAttribute(o.st, o.r.v, expr.name.lexeme)))
      [] expr.k = "This" ->
           EnvGet(s, expr.keyword.lexeme, LocalsGet(s.locals, expr))

(***************************************************************************)
(* The scanner (shared/scanner.rs).  The source is a sequence of           *)
(* characters, each written as a string of length one; "L" stands for the  *)
(* letter lambda of the scanner's tests, which is two bytes long, every    *)
(* other character is one byte long.  Offsets count bytes as in the        *)
(* source, cursor counts the characters taken.  A lexeme is the string of  *)
(* the characters of its slice.                                            *)
(***************************************************************************)
Digits == {"0", "1", "2", "3", "4", "5", "6", "7", "8", "9"}
Letters == {"a", "b", "c", "d", "e", "f", "g", "h", "i", "j", "k", "l", "m", "n", "o",
            "p", "q", "r", "s", "t", "u", "v", "w", "x", "y", "z", "L"}
Whitespace == {" ", "\t", "\r", "\n"}
Punctuation == {"(", ")", "{", "}", ",", ".", "-", "+", ";", "*", "!", "=", "<", ">", "/"}
Chars == Digits \cup Letters \cup Whitespace \cup Punctuation \cup {"\"", "_", "@", "#"}

Keywords == {"and", "break", "class", "else", "false", "for", "fun", "if", "nil", "or",
             "print", "return", "super", "this", "true", "var", "while"}

\* the TokenType a keyword's lexeme stands for
KeywordType(lexeme) ==
    CASE lexeme = "and" -> "And" [] lexeme = "break" -> "Break"
      [] lexeme = "class" -> "Class" [] lexeme = "else" -> "Else"
      [] lexeme = "false" -> "False" [] lexeme = "for" -> "For"
      [] lexeme = "fun" -> "Fun" [] lexeme = "if" -> "If"
      [] lexeme = "nil" -> "Nil" [] lexeme = "or" -> "Or"
      [] lexeme = "print" -> "Print" [] lexeme = "return" -> "Return"
      [] lexeme = "super" -> "Super" [] lexeme = "this" -> "This"
      [] lexeme = "true" -> "True" [] lexeme = "var" -> "Var"
      [] lexeme = "while" -> "While"

UnexpectedCharacter(line, char) == [k |-> "UnexpectedCharacter", line |-> line, char |-> char]
UnterminatedString(line) == [k |-> "UnterminatedString", line |-> line]
InvalidNumber(line, number) == [k |-> "InvalidNumber", line |-> line, number |-> number]

ScannerErrorDisplay(e) ==
    CASE e.k = "UnexpectedCharacter" ->
           "Unexpected character on line " \o ToString(e.line) \o ": " \o e.char
      [] e.k = "UnterminatedString" -> "Unterminated string on line " \o ToString(e.line)
      [] e.k = "InvalidNumber" ->
           "Invalid number on line " \o ToString(e.line) \o ": " \o e.number

\* Scanner::from: cursor counts the characters the CharIndices has yielded
ScannerFrom(text) ==
    [source |-> text, cursor |-> 0, current_offset |-> 0, lexeme_start |-> 0, line |-> 0]

\* char::len_utf8
LenUtf8(c) == IF c = "L" THEN 2 ELSE 1

\* the byte offset of the character after the first k
RECURSIVE OffsetOf(_, _)
OffsetOf(text, k) ==
    IF k = 0 THEN 0 ELSE OffsetOf(text, k - 1) + LenUtf8(text[k])

IsCharBoundary(text, offset) == \E k \in 0..Len(text) : OffsetOf(text, k) = offset

\* the characters from the k-th on that end at or before the byte offset to
RECURSIVE CharsUpTo(_, _, _)
CharsUpTo(text, k, to) ==
    IF k > Len(text) \/ OffsetOf(text, k) > to THEN ""
    ELSE text[k] \o CharsUpTo(text, k + 1, to)

\* &source[from..to], for byte offsets on character boundaries
Slice(text, from, to) ==
    CharsUpTo(text, 1 + Cardinality({k \in 1..Len(text) : OffsetOf(text, k) <= from}),
              to)

Peek(sc) == IF sc.cursor < Len(sc.source) THEN Some(sc.source[sc.cursor + 1]) ELSE None

PeekPeek(sc) ==
    IF sc.cursor + 1 < Len(sc.source) THEN Some(sc.source[sc.cursor + 2]) ELSE None

\* Scanner::advance, when the cursor yields a character
Advance(sc) ==
    [sc EXCEPT !.cursor = @ + 1,
               !.current_offset = OffsetOf(sc.source, sc.cursor)
                                   + LenUtf8(sc.source[sc.cursor + 1]),
               !.line = IF sc.source[sc.cursor + 1] = "\n" THEN @ + 1 ELSE @]

PeekIs(sc, chars) == IsSome(Peek(sc)) /\ Unwrap(Peek(sc)) \in chars

AdvanceIfMatch(sc, expected) == IF PeekIs(sc, {expected}) THEN Advance(sc) ELSE sc

\* Scanner::advance_while, the predicate given as the set of characters it holds of
RECURSIVE AdvanceWhile(_, _)
AdvanceWhile(sc, chars) == IF PeekIs(sc, chars) THEN AdvanceWhile(Advance(sc), chars) ELSE sc

Lexeme(sc) == Slice(sc.source, sc.lexeme_start, sc.current_offset)

Scanned(sc, res) == [sc |-> sc, item |-> Some(res)]

MakeToken(sc, typ) == Scanned(sc, Ok([typ |-> typ, lexeme |-> Lexeme(sc), line |-> sc.line]))

\* one of two token types, by whether the next character is =
OneOrTwo(sc, one, two) ==
    IF PeekIs(sc, {"="}) THEN MakeToken(AdvanceIfMatch(sc, "="), two)
    ELSE MakeToken(sc, one)

\* the '"' arm: up to the closing quote, or to the end of the source
RECURSIVE StringLiteral(_)
StringLiteral(sc) ==
    IF IsNone(Peek(sc)) THEN Scanned(sc, Err(UnterminatedString(sc.line)))
    ELSE IF Unwrap(Peek(sc)) = "\""
    THEN Scanned(Advance(sc),
                 Ok([typ |-> "String",
                     str |-> Slice(sc.source, sc.lexeme_start + 1,
                                   Advance(sc).current_offset - 1),
                     lexeme |-> Lexeme(Advance(sc)), line |-> Advance(sc).line]))
    ELSE StringLiteral(Advance(sc))

DigitValue(c) ==
    CASE c = "0" -> 0 [] c = "1" -> 1 [] c = "2" -> 2 [] c = "3" -> 3 [] c = "4" -> 4
      [] c = "5" -> 5 [] c = "6" -> 6 [] c = "7" -> 7 [] c = "8" -> 8 [] c = "9" -> 9

\* the characters of source[from..to], as positions in the source
SliceChars(text, from, to) ==
    {k \in 1..Len(text) : from <= OffsetOf(text, k - 1) /\ OffsetOf(text, k) <= to}

\* the digits at the positions ks read as a decimal numeral, the point skipped
RECURSIVE Numeral(_, _)
Numeral(text, ks) ==
    IF ks = {} THEN 0
    ELSE LET last == CHOOSE k \in ks : \A j \in ks : j <= k IN
         IF text[last] = "." THEN Numeral(text, ks \ {last})
         ELSE 10 * Numeral(text, ks \ {last}) + DigitValue(text[last])

RECURSIVE Power(_, _)
Power(b, e) == IF e = 0 THEN 1 ELSE b * Power(b, e - 1)

PointAt(text, from, to) == {i \in SliceChars(text, from, to) : text[i] = "."}

\* str::parse::<f64> on source[from..to]: digits with at most one point and a digit
\* somewhere; the value is the decimal's, which stands for the f64 nearest to it
ParseNumber(text, from, to) ==
    IF /\ \A i \in SliceChars(text, from, to) : text[i] \in Digits \cup {"."}
       /\ Cardinality(PointAt(text, from, to)) <= 1
       /\ \E i \in SliceChars(text, from, to) : text[i] \in Digits
    THEN Some(Ratio(1, Numeral(text, SliceChars(text, from, to)),
                    Power(10, Cardinality({i \in SliceChars(text, from, to) :
                                              \E p \in PointAt(text, from, to) : i > p}))))
    ELSE None

\* the point consumed whenever it follows the digits
FractionAlways(sc) ==
    IF PeekIs(sc, {"."}) THEN AdvanceWhile(Advance(sc), Digits) ELSE sc

\* the point is consumed when a digit follows it
Fraction(sc) ==
    IF PeekIs(sc, {"."}) /\ IsSome(PeekPeek(sc)) /\ Unwrap(PeekPeek(sc)) \in Digits
    THEN AdvanceWhile(Advance(sc), Digits)
    ELSE sc

NumberParsed(sc, number) ==
    IF IsSome(number)
    THEN Scanned(sc, Ok([typ |-> "Number", num |-> Unwrap(number),
                         lexeme |-> Lexeme(sc), line |-> sc.line]))
    ELSE Scanned(sc, Err(InvalidNumber(sc.line, Lexeme(sc))))

NumberLiteral(sc) == NumberParsed(sc, ParseNumber(sc.source, sc.lexeme_start, sc.current_offset))

Word(sc) ==
    IF Lexeme(sc) \in Keywords THEN MakeToken(sc, KeywordType(Lexeme(sc)))
    ELSE MakeToken(sc, "Identifier")

\* the match on the character c that advance returned, sc being the scanner after it
ScanToken(sc, c) ==
    CASE c = "(" -> MakeToken(sc, "LeftParen")
      [] c = ")" -> MakeToken(sc, "RightParen")
      [] c = "{" -> MakeToken(sc, "LeftBrace")
      [] c = "}" -> MakeToken(sc, "RightBrace")
      [] c = "," -> MakeToken(sc, "Comma")
      [] c = "." -> MakeToken(sc, "Dot")
      [] c = "-" -> MakeToken(sc, "Minus")
      [] c = "+" -> MakeToken(sc, "Plus")
      [] c = ";" -> MakeToken(sc, "Semicolon")
      [] c = "*" -> MakeToken(sc, "Star")
      [] c = "!" -> OneOrTwo(sc, "Bang", "BangEqual")
      [] c = "=" -> OneOrTwo(sc, "Equal", "EqualEqual")
      [] c = "<" -> OneOrTwo(sc, "Less", "LessEqual")
      [] c = ">" -> OneOrTwo(sc, "Greater", "GreaterEqual")
      [] c = "/" -> IF PeekIs(sc, {"/"})
                    THEN MakeToken(AdvanceWhile(Advance(sc), Chars \ {"\n"}), "Comment")
                    ELSE MakeToken(sc, "Slash")
      [] c = "\"" -> StringLiteral(sc)
      [] c \in Digits -> NumberLiteral(Fraction(AdvanceWhile(sc, Digits)))
      [] c \in Letters -> Word(AdvanceWhile(sc, Letters \cup Digits \cup {"_"}))
      [] OTHER -> Scanned(sc, Err(UnexpectedCharacter(sc.line, c)))

\* the character is taken and the lexeme starts at its offset
Start(sc) == [Advance(sc) EXCEPT !.lexeme_start = OffsetOf(sc.source, sc.cursor)]

SkipWhitespace(sc) == AdvanceWhile(sc, Whitespace)

\* Iterator::next: the scanner it leaves and the item, none at the end of the source
ScannerNext(sc) ==
    IF IsNone(Peek(SkipWhitespace(sc))) THEN [sc |-> SkipWhitespace(sc), item |-> None]
    ELSE ScanToken(Start(SkipWhitespace(sc)), Unwrap(Peek(SkipWhitespace(sc))))

(***************************************************************************)
(* The parser (walker/parser.rs).  The Peekable iterator is the token      *)
(* sequence and the number of tokens taken from it.                        *)
(***************************************************************************)
\* Parser::from; synced is the record of the calls of synchronize
ParserFrom(tokens) == [tokens |-> tokens, taken |-> 0, synced |-> <<>>]

(***************************************************************************)
(* Programs.  The parser's result is drawn from the test programs of       *)
(* walker/mod.rs and their variants (Corpus) and from generated programs:  *)
(* up to MaxStmts statements of a pool, placed at the top level, in a      *)
(* block, in the body of a function f that { f(); } or print f(); then     *)
(* calls, or in a block between fun showA() { print a; } and showA();,     *)
(* each after                                                              *)
(* var a = "global"; with every token on line 0 or each statement on a     *)
(* line of its own.                                                        *)
(***************************************************************************)
V(name, l) == Variable(Ident(name, l))
Num(n, l) == Literal(NumTok(F64(n), l))
Str(x, l) == Literal(StrTok(x, l))
Op(typ, l) == KwTok(typ, l)
CallStmt(name, l) == Expression(Call(V(name, l), <<>>))
VarStmt(name, init, l) == Var(Ident(name, l), Some(init))

Pool(i, l) ==
    CASE i = 1 -> VarStmt("a", Str("block", l), l)
      [] i = 2 -> PrintStmt(V("a", l))
      [] i = 3 -> Function(Ident("showA", l), <<>>, <<PrintStmt(V("a", l))>>)
      [] i = 4 -> CallStmt("showA", l)
      [] i = 5 -> VarStmt("a", V("a", l), l)
      [] i = 6 -> While(Literal(KwTok("True", l)), Block(<<Break>>))
      [] i = 7 -> Return(None)
      [] i = 8 -> Block(<<VarStmt("a", Num(2, l), l), PrintStmt(V("a", l))>>)
      [] i = 9 -> Expression(Assign(Ident("a", l), Num(3, l)))
      [] i = 10 -> If(Literal(KwTok("False", l)),
                      Function(Ident("showA", l), <<>>, <<>>), None)
      [] i = 11 -> Break
      [] i = 12 -> PrintStmt(Binary(V("a", l), Op("Plus", l), Num(2, l)))
      [] i = 13 -> While(Literal(KwTok("True", l)),
                         Block(<<If(Literal(KwTok("True", l)),
                                    Return(Some(Num(1, l))), None)>>))
      [] i = 14 -> Function(Ident("g", l), <<>>, <<Block(<<Return(None)>>)>>)

PoolItems == 1..14

Wraps == {"top", "block", "fun", "closure", "value"}
LineModes == {"same", "own"}

Body(picks, lines) ==
    [i \in 1..Len(picks) |-> Pool(picks[i], IF lines = "same" THEN 0 ELSE i)]

Generated(wrap, picks, lines) ==
    LET last == IF lines = "same" THEN 0 ELSE Len(picks) + 1
        prefix == <<VarStmt("a", Str("global", 0), 0)>>
    IN  CASE wrap = "top" -> prefix \o Body(picks, lines)
          [] wrap = "block" -> prefix \o <<Block(Body(picks, lines))>>
          [] wrap = "fun" -> prefix \o <<Function(Ident("f", 0), <<>>, Body(picks, lines)),
                                         Block(<<CallStmt("f", last)>>)>>
          [] wrap = "value" -> prefix \o <<Function(Ident("f", 0), <<>>, Body(picks, lines)),
                                           PrintStmt(Call(V("f", last), <<>>))>>
          [] wrap = "closure" ->
               prefix \o <<Block(<<Function(Ident("showA", 0), <<>>,
                                            <<PrintStmt(V("a", 0))>>)>>
                                 \o Body(picks, lines)
                                 \o <<CallStmt("showA", last)>>)>>

\* var a = "global"; { fun showA() { print a; } showA(); var a = "block"; showA(); }
ShowA == <<VarStmt("a", Str("global", 1), 1),
           Block(<<Function(Ident("showA", 3), <<>>, <<PrintStmt(V("a", 4))>>),
                   CallStmt("showA", 7),
                   VarStmt("a", Str("block", 8), 8),
                   CallStmt("showA", 9)>>)>>

\* var a = 1; { var a = a + 2; print a; }
ShadowInit == <<VarStmt("a", Num(1, 1), 1),
                Block(<<VarStmt("a", Binary(V("a", 3), Op("Plus", 3), Num(2, 3)), 3),
                        PrintStmt(V("a", 4))>>)>>

\* fun g(a) { var a = 1; }
ParamDup == <<Function(Ident("g", 0), <<Ident("a", 0)>>, <<VarStmt("a", Num(1, 0), 0)>>)>>

\* { class A {} class A {} }
ClassDup == <<Block(<<Class(Ident("A", 0), <<>>), Class(Ident("A", 0), <<>>)>>)>>

\* fun g(a) { { var a = 1; print a; } print a; } g(0);
ParamShadow == <<Function(Ident("g", 0), <<Ident("a", 0)>>,
                          <<Block(<<VarStmt("a", Num(1, 1), 1), PrintStmt(V("a", 1))>>),
                            PrintStmt(V("a", 2))>>),
                 Expression(Call(V("g", 3), <<Num(0, 3)>>))>>

\* fun makeCounter() { var i = 0; fun count() { i = i + 1; print i; } return count; }
\* var counter = makeCounter(); counter(); counter(); counter();
MakeCounter ==
    <<Function(Ident("makeCounter", 1), <<>>,
               <<VarStmt("i", Num(0, 2), 2),
                 Function(Ident("count", 3), <<>>,
                          <<Expression(Assign(Ident("i", 4),
                                              Binary(V("i", 4), Op("Plus", 4), Num(1, 4)))),
                            PrintStmt(V("i", 5))>>),
                 Return(Some(V("count", 8)))>>),
      VarStmt("counter", Call(V("makeCounter", 11), <<>>), 11),
      CallStmt("counter", 12), CallStmt("counter", 13), CallStmt("counter", 14)>>

\* { var i = 0; fun inc() { i = i + 1; } fun show() { print i; }
\*   inc(); show(); i = i + 10; show(); inc(); print i; }
SharedFrame ==
    <<Block(<<VarStmt("i", Num(0, 1), 1),
              Function(Ident("inc", 2), <<>>,
                       <<Expression(Assign(Ident("i", 2),
                                           Binary(V("i", 2), Op("Plus", 2), Num(1, 2))))>>),
              Function(Ident("show", 3), <<>>, <<PrintStmt(V("i", 3))>>),
              CallStmt("inc", 4), CallStmt("show", 5),
              Expression(Assign(Ident("i", 6),
                                Binary(V("i", 6), Op("Plus", 6), Num(10, 6)))),
              CallStmt("show", 7), CallStmt("inc", 8), PrintStmt(V("i", 9))>>)>>

\* fun fib(n) { if (n <= 1) return n; return fib(n - 2) + fib(n - 1); } print(fib(3));
Fib ==
    <<Function(Ident("fib", 1), <<Ident("n", 1)>>,
               <<If(Binary(V("n", 2), Op("LessEqual", 2), Num(1, 2)),
                    Return(Some(V("n", 2))), None),
                 Return(Some(Binary(Call(V("fib", 3), <<Binary(V("n", 3), Op("Minus", 3),
                                                               Num(2, 3))>>),
                                    Op("Plus", 3),
                                    Call(V("fib", 3), <<Binary(V("n", 3), Op("Minus", 3),
                                                               Num(1, 3))>>))))>>),
      PrintStmt(Grouping(Call(V("fib", 6), <<Num(3, 6)>>)))>>

\* a for statement whose increment runs before the body
ForStatementIncrementFirst(initializer, condition, increment, body) ==
    LET b == IF IsSome(increment)
             THEN Block(<<Expression(Unwrap(increment)), body>>) ELSE body
        c == IF IsSome(condition) THEN Unwrap(condition) ELSE Literal(TRUE_TOKEN)
        w == While(c, b)
    IN  IF IsSome(initializer) THEN Block(<<Unwrap(initializer), w>>) ELSE w

\* Parser::for_statement: the loop that a for statement is rewritten to
ForStatement(initializer, condition, increment, body) ==
    LET b == IF IsSome(increment)
             THEN Block(<<body, Expression(Unwrap(increment))>>) ELSE body
        c == IF IsSome(condition) THEN Unwrap(condition) ELSE Literal(TRUE_TOKEN)
        w == While(c, b)
    IN  IF IsSome(initializer) THEN Block(<<Unwrap(initializer), w>>) ELSE w

(***************************************************************************)
(* The parser's rules (walker/parser.rs).  A rule takes the parser and     *)
(* gives the parser it leaves and its Result: p and r.  The panic of the   *)
(* unwrap in function is an outcome of its own, which no ? turns into a    *)
(* value and after which nothing of the parser runs.                       *)
(***************************************************************************)
UnexpectedToken(expected, token) ==
    [k |-> "UnexpectedToken", expected |-> expected, token |-> token]
UnexpectedEndOfInput == [k |-> "UnexpectedEndOfInput"]
InvalidAssignmentTarget == [k |-> "InvalidAssignmentTarget"]
UnwrapOfErr == [k |-> "Panic"]

\* Display for TokenType, of the type of a token or of an expected type
TokenTypeDisplay(typ, token) ==
    CASE typ = "LeftParen" -> "(" [] typ = "RightParen" -> ")"
      [] typ = "LeftBrace" -> "{" [] typ = "RightBrace" -> "}"
      [] typ = "Comma" -> ")," [] typ = "Dot" -> "." [] typ = "Minus" -> "-"
      [] typ = "Plus" -> "+" [] typ = "Semicolon" -> ";" [] typ = "Slash" -> "/"
      [] typ = "Star" -> "*" [] typ = "Bang" -> "!" [] typ = "BangEqual" -> "!="
      [] typ = "Equal" -> "=" [] typ = "EqualEqual" -> "=="
      [] typ = "Greater" -> ">" [] typ = "GreaterEqual" -> ">="
      [] typ = "Less" -> "<" [] typ = "LessEqual" -> "<="
      [] typ = "Identifier" -> "identifier(" \o token.lexeme \o ")"
      [] typ = "String" -> "string(" \o token.str \o ")"
      [] typ = "Number" -> "number(" \o FDisplay(token.num) \o ")"
      [] typ = "Comment" -> "a comment"
      [] typ = "And" -> "and" [] typ = "Break" -> "break" [] typ = "Class" -> "class"
      [] typ = "Else" -> "else" [] typ = "False" -> "false" [] typ = "For" -> "for"
      [] typ = "Fun" -> "fun" [] typ = "If" -> "if" [] typ = "Nil" -> "nil"
      [] typ = "Or" -> "or" [] typ = "Print" -> "print" [] typ = "Return" -> "return"
      [] typ = "Super" -> "super" [] typ = "This" -> "this" [] typ = "True" -> "true"
      [] typ = "Var" -> "var" [] typ = "While" -> "while"

\* Display for ParserError; the expected Identifier("") has no name
ParserErrorDisplay(e) ==
    CASE e.k = "UnexpectedToken" ->
           "Expected " \o TokenTypeDisplay(e.expected, [lexeme |-> ""]) \o " on line "
           \o ToString(e.token.line) \o ", but got "
           \o TokenTypeDisplay(e.token.typ, e.token)
      [] e.k = "UnexpectedEndOfInput" -> "Unexpected end of input"
      [] e.k = "InvalidAssignmentTarget" -> "Invalid assignment target"

Parsed(p, v) == [p |-> p, r |-> Ok(v)]
Failed(p, e) == [p |-> p, r |-> Err(e)]

\* Peekable::peek
PeekToken(p) == IF p.taken < Len(p.tokens) THEN Some(p.tokens[p.taken + 1]) ELSE None
PeekIn(p, types) == IsSome(PeekToken(p)) /\ Unwrap(PeekToken(p)).typ \in types
PeekNotIn(p, types) == IsSome(PeekToken(p)) /\ Unwrap(PeekToken(p)).typ \notin types

\* Peekable::next, when there is a token
Take(p) == [p EXCEPT !.taken = @ + 1]

\* peek().map_or(UnexpectedEndOfInput, |token| UnexpectedToken {expected, token})
Expected(p, typ) ==
    IF IsNone(PeekToken(p)) THEN UnexpectedEndOfInput
    ELSE UnexpectedToken(typ, Unwrap(PeekToken(p)))

RequireToken(p, typ) ==
    IF PeekIn(p, {typ}) THEN Parsed(Take(p), Unwrap(PeekToken(p)))
    ELSE Failed(p, Expected(p, typ))

StatementStart == {"Class", "Fun", "Var", "For", "If", "While", "Print", "Return"}

\* the parser after the tokens synchronize takes
RECURSIVE Skip(_)
Skip(p) ==
    IF IsNone(PeekToken(p)) THEN p
    ELSE IF PeekIn(p, {"Semicolon"}) THEN Take(p)
    ELSE IF PeekIn(Take(p), StatementStart) THEN Take(p)
    ELSE Skip(Take(p))

\* Parser::synchronize; synced records where each call began and ended
Synchronize(p) == [Skip(p) EXCEPT !.synced = Append(@, <<p.taken, Skip(p).taken>>)]

\* inspect_err(|_| self.synchronize())
InspectErr(x) ==
    IF x.r.ok \/ x.r.e.k = "Panic" THEN x ELSE [x EXCEPT !.p = Synchronize(x.p)]

RECURSIVE ParseAssignment(_), ParseUnary(_), ParseDeclaration(_), ParseStatement(_)
RECURSIVE Arguments(_, _), CallLoop(_), FactorLoop(_), TermLoop(_), ComparisonLoop(_)
RECURSIVE EqualityLoop(_), AndLoop(_), OrLoop(_), BlockStatements(_, _)

ParseExpression(p) == ParseAssignment(p)

\* the LeftParen arm of primary
ParseGrouping(p) ==
    Then(ParseExpression(p), LAMBDA x :
         IF PeekIn(x.p, {"RightParen"}) THEN Parsed(Take(x.p), Grouping(x.r.v))
         ELSE Failed(x.p, Expected(x.p, "RightParen")))

\* the match of primary on the token taken
PrimaryOf(p, token) ==
    CASE token.typ \in {"False", "True", "Nil", "Number", "String"} ->
           Parsed(p, Literal(token))
      [] token.typ = "LeftParen" -> ParseGrouping(p)
      [] token.typ = "Identifier" -> Parsed(p, Variable(token))
      [] OTHER -> Failed(p, UnexpectedToken("Identifier", token))

ParsePrimary(p) ==
    IF IsNone(PeekToken(p)) THEN Failed(p, UnexpectedEndOfInput)
    ELSE PrimaryOf(Take(p), Unwrap(PeekToken(p)))

\* the arguments of a call: the loop goes on after a comma, which it leaves
Arguments(p, args) ==
    IF PeekNotIn(p, {"RightParen"})
    THEN Then(ParseExpression(p), LAMBDA x :
              IF PeekIn(x.p, {"Comma"}) THEN Arguments(x.p, Append(args, x.r.v))
              ELSE Parsed(x.p, Append(args, x.r.v)))
    ELSE Parsed(p, args)

CallLoop(x) ==
    IF PeekIn(x.p, {"LeftParen"})
    THEN Then(Arguments(Take(x.p), <<>>), LAMBDA a :
         Then(RequireToken(a.p, "RightParen"), LAMBDA t :
              CallLoop(Parsed(t.p, Call(x.r.v, a.r.v)))))
    ELSE x

ParseCall(p) == Then(ParsePrimary(p), CallLoop)

ParseUnary(p) ==
    IF PeekIn(p, {"Bang", "Minus"})
    THEN Then(ParseUnary(Take(p)), LAMBDA x :
              Parsed(x.p, Unary(Unwrap(PeekToken(p)), x.r.v)))
    ELSE ParseCall(p)

FactorOps == {"Slash", "Star"}
TermOps == {"Minus", "Plus"}

FactorLoop(x) ==
    IF PeekIn(x.p, FactorOps)
    THEN Then(ParseUnary(Take(x.p)), LAMBDA y :
              FactorLoop(Parsed(y.p, Binary(x.r.v, Unwrap(PeekToken(x.p)), y.r.v))))
    ELSE x

ParseFactor(p) == Then(ParseUnary(p), FactorLoop)

\* a term whose right operand takes the terms that follow it
TermLoopRight(x) ==
    IF PeekIn(x.p, TermOps)
    THEN Then(Then(ParseFactor(Take(x.p)), TermLoop), LAMBDA y :
              Parsed(y.p, Binary(x.r.v, Unwrap(PeekToken(x.p)), y.r.v)))
    ELSE x

TermLoop(x) ==
    IF PeekIn(x.p, TermOps)
    THEN Then(ParseFactor(Take(x.p)), LAMBDA y :
              TermLoop(Parsed(y.p, Binary(x.r.v, Unwrap(PeekToken(x.p)), y.r.v))))
    ELSE x

ParseTerm(p) == Then(ParseFactor(p), TermLoop)

ComparisonLoop(x) ==
    IF PeekIn(x.p, {"Greater", "GreaterEqual", "Less", "LessEqual"})
    THEN Then(ParseTerm(Take(x.p)), LAMBDA y :
              ComparisonLoop(Parsed(y.p, Binary(x.r.v, Unwrap(PeekToken(x.p)), y.r.v))))
    ELSE x

ParseComparison(p) == Then(ParseTerm(p), ComparisonLoop)

EqualityLoop(x) ==
    IF PeekIn(x.p, {"BangEqual", "EqualEqual"})
    THEN Then(ParseComparison(Take(x.p)), LAMBDA y :
              EqualityLoop(Parsed(y.p, Binary(x.r.v, Unwrap(PeekToken(x.p)), y.r.v))))
    ELSE x

ParseEquality(p) == Then(ParseComparison(p), EqualityLoop)

AndLoop(x) ==
    IF PeekIn(x.p, {"And"})
    THEN Then(ParseEquality(Take(x.p)), LAMBDA y :
              AndLoop(Parsed(y.p, Logical(x.r.v, Unwrap(PeekToken(x.p)), y.r.v))))
    ELSE x

ParseAnd(p) == Then(ParseEquality(p), AndLoop)

OrLoop(x) ==
    IF PeekIn(x.p, {"Or"})
    THEN Then(ParseAnd(Take(x.p)), LAMBDA y :
              OrLoop(Parsed(y.p, Logical(x.r.v, Unwrap(PeekToken(x.p)), y.r.v))))
    ELSE x

ParseOr(p) == Then(ParseAnd(p), OrLoop)

\* the target is checked after the value is parsed
AssignTo(x, v) ==
    IF x.r.v.k = "Variable" THEN Parsed(v.p, Assign(x.r.v.name, v.r.v))
    ELSE Failed(v.p, InvalidAssignmentTarget)

ParseAssignment(p) ==
    Then(ParseOr(p), LAMBDA x :
         IF PeekIn(x.p, {"Equal"})
         THEN Then(ParseAssignment(Take(x.p)), LAMBDA v : AssignTo(x, v))
         ELSE x)

\* an expression, then the token typ, then the statement made of the expression
Terminated(p, typ, Make(_)) ==
    Then(ParseExpression(p), LAMBDA x :
    Then(RequireToken(x.p, typ), LAMBDA t : Parsed(t.p, Make(x.r.v))))

ParseExpressionStatement(p) == Terminated(p, "Semicolon", Expression)

ParsePrintStatement(p) == Terminated(p, "Semicolon", PrintStmt)

ParseReturnStatement(p) ==
    IF PeekNotIn(p, {"Semicolon"})
    THEN Terminated(p, "Semicolon", LAMBDA e : Return(Some(e)))
    ELSE Then(RequireToken(p, "Semicolon"), LAMBDA t : Parsed(t.p, Return(None)))

\* variable_declaration, the var taken; name is the token peeked at
VariableInitializer(p, name) ==
    IF PeekIn(p, {"Equal"})
    THEN Terminated(Take(p), "Semicolon", LAMBDA e : Var(name, Some(e)))
    ELSE Then(RequireToken(p, "Semicolon"), LAMBDA t : Parsed(t.p, Var(name, None)))

ParseVariableDeclaration(p) ==
    IF PeekIn(p, {"Identifier"}) THEN VariableInitializer(Take(p), Unwrap(PeekToken(p)))
    ELSE Failed(p, Expected(p, "Semicolon"))

\* the declarations up to a right brace or the end; the first error ends them
BlockStatements(p, stmts) ==
    IF PeekNotIn(p, {"RightBrace"})
    THEN Then(ParseDeclaration(p), LAMBDA x : BlockStatements(x.p, Append(stmts, x.r.v)))
    ELSE Parsed(p, stmts)

ParseBlock(p) ==
    Then(BlockStatements(p, <<>>), LAMBDA b :
    Then(RequireToken(b.p, "RightBrace"), LAMBDA t : Parsed(t.p, Block(b.r.v))))

ElseBranch(p, condition, then) ==
    IF PeekIn(p, {"Else"})
    THEN Then(ParseStatement(Take(p)), LAMBDA e :
              Parsed(e.p, If(condition, then, Some(e.r.v))))
    ELSE Parsed(p, If(condition, then, None))

ParseIfStatement(p) ==
    Then(RequireToken(p, "LeftParen"), LAMBDA t :
    Then(Terminated(t.p, "RightParen", LAMBDA e : e), LAMBDA c :
    Then(ParseStatement(c.p), LAMBDA s : ElseBranch(s.p, c.r.v, s.r.v))))

ParseWhileStatement(p) ==
    Then(RequireToken(p, "LeftParen"), LAMBDA t :
    Then(Terminated(t.p, "RightParen", LAMBDA e : e), LAMBDA c :
    Then(ParseStatement(c.p), LAMBDA s : Parsed(s.p, While(c.r.v, s.r.v)))))

ForInitializer(p) ==
    IF PeekIn(p, {"Semicolon"}) THEN Parsed(Take(p), None)
    ELSE IF PeekIn(p, {"Var"})
    THEN Then(ParseVariableDeclaration(Take(p)), LAMBDA x : Parsed(x.p, Some(x.r.v)))
    ELSE Then(ParseExpressionStatement(p), LAMBDA x : Parsed(x.p, Some(x.r.v)))

\* the condition, none standing for the literal of the TRUE token
ForCondition(p) ==
    IF PeekNotIn(p, {"Semicolon"})
    THEN Then(ParseExpression(p), LAMBDA x : Parsed(x.p, Some(x.r.v)))
    ELSE Parsed(p, None)

ForIncrement(p) ==
    IF PeekNotIn(p, {"RightParen"})
    THEN Then(ParseExpression(p), LAMBDA x : Parsed(x.p, Some(x.r.v)))
    ELSE Parsed(p, None)

ForBody(p, initializer, condition, increment) ==
    Then(RequireToken(p, "RightParen"), LAMBDA t :
    Then(ParseStatement(t.p), LAMBDA b :
         Parsed(b.p, ForStatement(initializer, condition, increment, b.r.v))))

ParseForStatement(p) ==
    Then(RequireToken(p, "LeftParen"), LAMBDA t :
    Then(ForInitializer(t.p), LAMBDA i :
    Then(ForCondition(i.p), LAMBDA c :
    Then(RequireToken(c.p, "Semicolon"), LAMBDA s :
    Then(ForIncrement(s.p), LAMBDA n : ForBody(n.p, i.r.v, c.r.v, n.r.v))))))

\* the parameters: the loop goes on after a comma, which it leaves
RECURSIVE Parameters(_, _)
Parameters(p, params) ==
    IF PeekNotIn(p, {"RightParen"})
    THEN IF PeekIn(p, {"Identifier"})
         THEN IF PeekIn(Take(p), {"Comma"})
              THEN Parameters(Take(p), Append(params, Unwrap(PeekToken(p))))
              ELSE Parsed(Take(p), Append(params, Unwrap(PeekToken(p))))
         ELSE Failed(p, UnexpectedToken("Identifier", Unwrap(PeekToken(p))))
    ELSE Parsed(p, params)

FunctionBody(p, name, params) ==
    Then(RequireToken(p, "RightParen"), LAMBDA t :
    Then(RequireToken(t.p, "LeftBrace"), LAMBDA l :
    Then(BlockStatements(l.p, <<>>), LAMBDA b :
    Then(RequireToken(b.p, "RightBrace"), LAMBDA r :
         Parsed(r.p, Function(name, params, b.r.v))))))

\* Parser::function; at the end of the input the error's token is the unwrap of
\* Err(UnexpectedEndOfInput), which panics
ParseFunction(p) ==
    IF PeekIn(p, {"Identifier"})
    THEN Then(RequireToken(Take(p), "LeftParen"), LAMBDA t :
         Then(Parameters(t.p, <<>>), LAMBDA ps :
              FunctionBody(ps.p, Unwrap(PeekToken(p)), ps.r.v)))
    ELSE IF IsNone(PeekToken(p)) THEN Failed(p, UnwrapOfErr)
    ELSE Failed(p, UnexpectedToken("Identifier", Unwrap(PeekToken(p))))

StatementOf(p, typ) ==
    CASE typ = "For" -> ParseForStatement(p)
      [] typ = "Print" -> ParsePrintStatement(p)
      [] typ = "LeftBrace" -> ParseBlock(p)
      [] typ = "If" -> ParseIfStatement(p)
      [] typ = "While" -> ParseWhileStatement(p)
      [] typ = "Fun" -> ParseFunction(p)
      [] typ = "Return" -> ParseReturnStatement(p)
      [] typ = "Break" ->
           Then(RequireToken(p, "Semicolon"), LAMBDA t : Parsed(t.p, Break))

ParseStatement(p) ==
    IF PeekIn(p, {"For", "Print", "LeftBrace", "If", "While", "Fun", "Return", "Break"})
    THEN StatementOf(Take(p), Unwrap(PeekToken(p)).typ)
    ELSE ParseExpressionStatement(p)

\* a declaration without the recovery of inspect_err
Declared(p) ==
    IF PeekIn(p, {"Var"}) THEN ParseVariableDeclaration(Take(p)) ELSE ParseStatement(p)

ParseDeclaration(p) == InspectErr(Declared(p))

\* for (var i = 0; i < 3; i = i + 1) {print i; if (i >= 1) break;} print "end";
ForBreak ==
    <<ForStatement(Some(VarStmt("i", Num(0, 1), 1)),
                   Some(Binary(V("i", 1), Op("Less", 1), Num(3, 1))),
                   Some(Assign(Ident("i", 1),
                               Binary(V("i", 1), Op("Plus", 1), Num(1, 1)))),
                   Block(<<PrintStmt(V("i", 1)),
                           If(Binary(V("i", 1), Op("GreaterEqual", 1), Num(1, 1)),
                              Break, None)>>)),
      PrintStmt(Str("end", 2))>>

\* var i = 0;
\* while (i < 2) { while (true) { print "in"; break; print "never"; } print i; i = i + 1; }
\* print "end";
NestedBreak ==
    <<VarStmt("i", Num(0, 1), 1),
      While(Binary(V("i", 2), Op("Less", 2), Num(2, 2)),
            Block(<<While(Literal(TRUE_TOKEN),
                          Block(<<PrintStmt(Str("in", 2)), Break,
                                  PrintStmt(Str("never", 2))>>)),
                    PrintStmt(V("i", 2)),
                    Expression(Assign(Ident("i", 2),
                                      Binary(V("i", 2), Op("Plus", 2), Num(1, 2))))>>)),
      PrintStmt(Str("end", 3))>>

\* {
\*   fun mk(n) {
\*     fun c() {}
\*     if (n > 1) mk = nil;
\*     return c;
\*   }
\*   print mk(1) == mk(2);
\* }
ClosurePair ==
    <<Block(<<Function(Ident("mk", 2), <<Ident("n", 2)>>,
                       <<Function(Ident("c", 3), <<>>, <<>>),
                         If(Binary(V("n", 4), Op("Greater", 4), Num(1, 4)),
                            Expression(Assign(Ident("mk", 4), Literal(KwTok("Nil", 4)))),
                            None),
                         Return(Some(V("c", 5)))>>),
              PrintStmt(Binary(Call(V("mk", 7), <<Num(1, 7)>>), Op("EqualEqual", 7),
                               Call(V("mk", 7), <<Num(2, 7)>>)))>>)>>

\* class M { m() {} }
\* var o = M(); var p = o; var q = M();
\* o.m = 1; o.x = "v";
\* print p.m; print p.x; print q.m; print M().m;
Fields ==
    <<Class(Ident("M", 1), <<Function(Ident("m", 1), <<>>, <<>>)>>),
      VarStmt("o", Call(V("M", 2), <<>>), 2),
      VarStmt("p", V("o", 3), 3),
      VarStmt("q", Call(V("M", 4), <<>>), 4),
      Expression(Set(V("o", 5), Ident("m", 5), Num(1, 5))),
      Expression(Set(V("o", 6), Ident("x", 6), Str("v", 6))),
      PrintStmt(Get(V("p", 7), Ident("m", 7))),
      PrintStmt(Get(V("p", 8), Ident("x", 8))),
      PrintStmt(Get(V("q", 9), Ident("m", 9))),
      PrintStmt(Get(Call(V("M", 10), <<>>), Ident("m", 10)))>>

\* class M { who() { print this.tag; } }
\* var o = M(); o.tag = "o"; var q = M(); q.tag = "q";
\* o.who(); var w = q.who; w();
Receivers ==
    <<Class(Ident("M", 1),
            <<Function(Ident("who", 1), <<>>,
                       <<PrintStmt(Get(This(ThisTok(1)), Ident("tag", 1)))>>)>>),
      VarStmt("o", Call(V("M", 2), <<>>), 2),
      Expression(Set(V("o", 2), Ident("tag", 2), Str("o", 2))),
      VarStmt("q", Call(V("M", 3), <<>>), 3),
      Expression(Set(V("q", 3), Ident("tag", 3), Str("q", 3))),
      Expression(Call(Get(V("o", 4), Ident("who", 4)), <<>>)),
      VarStmt("w", Get(V("q", 5), Ident("who", 5)), 5),
      CallStmt("w", 5)>>

\* var a = "global";
\* { fun setA() { a = "set"; } var a = "block"; setA(); print a; }
\* print a;
SetA ==
    <<VarStmt("a", Str("global", 1), 1),
      Block(<<Function(Ident("setA", 2), <<>>,
                       <<Expression(Assign(Ident("a", 2), Str("set", 2)))>>),
              VarStmt("a", Str("block", 2), 2),
              CallStmt("setA", 2),
              PrintStmt(V("a", 2))>>),
      PrintStmt(V("a", 3))>>

\* class Q { init() { return; } }
\* fun g() { Q(); print "after"; }
\* g();
\* print "end";
InitReturns ==
    <<Class(Ident("Q", 1), <<Function(Ident("init", 1), <<>>, <<Return(None)>>)>>),
      Function(Ident("g", 2), <<>>,
               <<Expression(Call(V("Q", 2), <<>>)), PrintStmt(Str("after", 2))>>),
      CallStmt("g", 3),
      PrintStmt(Str("end", 4))>>

\* fun f() { break; }
\* var i = 0;
\* while (i < 2) { i = i + 1; f(); print i; }
\* print "end";
BreakInCallee ==
    <<Function(Ident("f", 1), <<>>, <<Break>>),
      VarStmt("i", Num(0, 2), 2),
      While(Binary(V("i", 3), Op("Less", 3), Num(2, 3)),
            Block(<<Expression(Assign(Ident("i", 3),
                                      Binary(V("i", 3), Op("Plus", 3), Num(1, 3)))),
                    CallStmt("f", 3),
                    PrintStmt(V("i", 3))>>)),
      PrintStmt(Str("end", 4))>>

\* class K {}
\* var o = K(); o.b = 1;
\* o.a = o.b;
\* print o.a;
SetFromGet ==
    <<Class(Ident("K", 1), <<>>),
      VarStmt("o", Call(V("K", 2), <<>>), 2),
      Expression(Set(V("o", 2), Ident("b", 2), Num(1, 2))),
      Expression(Set(V("o", 3), Ident("a", 3), Get(V("o", 3), Ident("b", 3)))),
      PrintStmt(Get(V("o", 4), Ident("a", 4)))>>

\* class K {}
\* var o = K(); var p = K(); p.b = 1;
\* o.a = p.b;
\* print o.a;
SetFromOther ==
    <<Class(Ident("K", 1), <<>>),
      VarStmt("o", Call(V("K", 2), <<>>), 2),
      VarStmt("p", Call(V("K", 2), <<>>), 2),
      Expression(Set(V("p", 2), Ident("b", 2), Num(1, 2))),
      Expression(Set(V("o", 3), Ident("a", 3), Get(V("p", 3), Ident("b", 3)))),
      PrintStmt(Get(V("o", 4), Ident("a", 4)))>>

\* fun f() {} print f == f;
SelfEqual ==
    <<Function(Ident("f", 1), <<>>, <<>>),
      PrintStmt(Binary(V("f", 1), Op("EqualEqual", 1), V("f", 1)))>>

Corpus == <<ShowA, ShadowInit, ParamDup, ClassDup, ParamShadow, MakeCounter, SharedFrame,
            Fib, ForBreak, NestedBreak, ClosurePair, Fields, Receivers, SetA, InitReturns,
            BreakInCallee, SetFromGet, SetFromOther, SelfEqual>>

(***************************************************************************)
(* Programs about one expression.  After the declarations                  *)
(*   var a = "unset"; fun f(x) { print x; } class K {}                      *)
(*   class P { init(x) { print x; } } var o = K();                         *)
(* one statement uses the expression and print a; follows.  Classes reach  *)
(* the interpreter as Stmt::Class trees.                                   *)
(***************************************************************************)
Prelude ==
    <<VarStmt("a", Str("unset", 1), 1),
      Function(Ident("f", 2), <<Ident("x", 2)>>, <<PrintStmt(V("x", 2))>>),
      Class(Ident("K", 3), <<>>),
      Class(Ident("P", 4),
            <<Function(Ident("init", 4), <<Ident("x", 4)>>, <<PrintStmt(V("x", 4))>>)>>),
      VarStmt("o", Call(V("K", 5), <<>>), 5)>>

Callees == {"clock", "tsp2cup", "f", "K", "P"}
Atoms == {"nil", "false", "true", "0", "1", "2", "empty", "hi", "clock", "f", "K", "P", "o"}
BinaryOps == {"Plus", "Minus", "Star", "Slash", "Greater", "GreaterEqual", "Less",
              "LessEqual", "EqualEqual", "BangEqual"}

Atom(x, l) ==
    CASE x = "nil" -> Literal(KwTok("Nil", l))
      [] x = "false" -> Literal(KwTok("False", l))
      [] x = "true" -> Literal(KwTok("True", l))
      [] x = "0" -> Num(0, l)
      [] x = "1" -> Num(1, l)
      [] x = "2" -> Num(2, l)
      [] x = "empty" -> Str("", l)
      [] x = "hi" -> Str("hi", l)
      [] OTHER -> V(x, l)

\* call:    print l(15, ...);     with n arguments
\* logical: print l op (a = r);
\* assign:  print a = r;      or      print a = r(15, ...);     with n arguments
\* create:  print z = r;
\* var:     var b; print b;
\* binary:  print l op r;
\* unary:   print op l;
\* if:      if (l) print "then"; else print "else";
\* while:   while (l) { print "loop"; break; }
\* get:     print l.m;
\* set:     print l.m = r;
ExprStatement(src) ==
    CASE src.form = "call" ->
           PrintStmt(Call(V(src.l, 6), [i \in 1..src.n |-> Num(15, 6)]))
      [] src.form = "logical" ->
           PrintStmt(Logical(Atom(src.l, 6), Op(src.op, 6),
                             Grouping(Assign(Ident("a", 6), Atom(src.r, 6)))))
      [] src.form = "assign" ->
           PrintStmt(Assign(Ident("a", 6),
                            IF src.op = "call"
                            THEN Call(V(src.r, 6), [i \in 1..src.n |-> Num(15, 6)])
                            ELSE Atom(src.r, 6)))
      [] src.form = "create" -> PrintStmt(Assign(Ident("z", 6), Atom(src.r, 6)))
      [] src.form = "var" ->
           Block(<<Var(Ident("b", 6), None), PrintStmt(V("b", 6))>>)
      [] src.form = "binary" ->
           PrintStmt(Binary(Atom(src.l, 6), Op(src.op, 6), Atom(src.r, 6)))
      [] src.form = "unary" -> PrintStmt(Unary(Op(src.op, 6), Atom(src.l, 6)))
      [] src.form = "if" ->
           If(Atom(src.l, 6), PrintStmt(Str("then", 6)), Some(PrintStmt(Str("else", 6))))
      [] src.form = "while" ->
           While(Atom(src.l, 6), Block(<<PrintStmt(Str("loop", 6)), Break>>))
      [] src.form = "get" -> PrintStmt(Get(Atom(src.l, 6), Ident("m", 6)))
      [] src.form = "set" ->
           PrintStmt(Set(Atom(src.l, 6), Ident("m", 6), Atom(src.r, 6)))

ExprSource(form, l, op, r, n) ==
    [kind |-> "expr", form |-> form, l |-> l, op |-> op, r |-> r, n |-> n]

ExprSources ==
    {ExprSource("call", l, "", "", n) : l \in Callees, n \in 0..MaxArgs}
    \cup {ExprSource("logical", l, op, r, 0) : l \in Atoms, op \in {"Or", "And"}, r \in Atoms}
    \cup {ExprSource("assign", "", "", r, 0) : r \in Atoms}
    \cup {ExprSource("assign", "", "call", r, n) : r \in Callees, n \in 0..MaxArgs}
    \cup {ExprSource("create", "", "", r, 0) : r \in {"1", "hi"}}
    \cup {ExprSource("var", "", "", "", 0)}
    \cup {ExprSource("binary", l, op, r, 0) : l \in Atoms, op \in BinaryOps, r \in Atoms}
    \cup {ExprSource("unary", l, op, "", 0) : l \in Atoms, op \in {"Bang", "Minus"}}
    \cup {ExprSource(form, l, "", "", 0) : form \in {"if", "while", "get"}, l \in Atoms}
    \cup {ExprSource("set", l, "", r, 0) : l \in Atoms, r \in {"1", "hi"}}

ExprProgram(src) == Prelude \o <<ExprStatement(src), PrintStmt(V("a", 7))>>

(***************************************************************************)
(* Programs about one loop, written as a for statement and as the while    *)
(* loop by hand:                                                           *)
(*   [var i = 0;] for (init; cond; incr) body print "end";                 *)
(*   [var i = 0;] init; while (cond) { body incr; } print "end";           *)
(* with init one of nothing, var i = 0 and i = 0 (the leading var i = 0;   *)
(* is there unless init declares i), cond nothing or i < 2, incr nothing   *)
(* or i = i + 1 and body one of print i;  { print i; if (i >= 1) break; }  *)
(* and { print i; i = i + 1; }; what follows the leading declaration is at  *)
(* the top level, in a block, or the body of a function g that g(); calls. *)
(* The tail var x = 1; print x; may follow print "end"; in the same scope. *)
(***************************************************************************)
LoopInits == {"none", "var", "expr"}
LoopBodies == {"print", "break", "step"}
Step == Assign(Ident("i", 1), Binary(V("i", 1), Op("Plus", 1), Num(1, 1)))

LoopInit(src) ==
    CASE src.init = "none" -> None
      [] src.init = "var" -> Some(VarStmt("i", Num(0, 1), 1))
      [] src.init = "expr" -> Some(Expression(Assign(Ident("i", 1), Num(0, 1))))

LoopCondition(src) ==
    IF src.cond THEN Some(Binary(V("i", 1), Op("Less", 1), Num(2, 1))) ELSE None

LoopIncrement(src) == IF src.incr THEN Some(Step) ELSE None

LoopBody(src) ==
    CASE src.body = "print" -> PrintStmt(V("i", 1))
      [] src.body = "break" ->
           Block(<<PrintStmt(V("i", 1)),
                   If(Binary(V("i", 1), Op("GreaterEqual", 1), Num(1, 1)), Break, None)>>)
      [] src.body = "step" -> Block(<<PrintStmt(V("i", 1)), Expression(Step)>>)

LoopPrelude(src) == IF src.init = "var" THEN <<>> ELSE <<VarStmt("i", Num(0, 1), 1)>>

LoopWraps == {"top", "block", "fun"}

LoopTail(src) ==
    IF src.tail THEN <<VarStmt("x", Num(1, 3), 3), PrintStmt(V("x", 3))>> ELSE <<>>

LoopWrapped(src, stmts) ==
    CASE src.wrap = "top" -> stmts
      [] src.wrap = "block" -> <<Block(stmts)>>
      [] src.wrap = "fun" -> <<Function(Ident("g", 1), <<>>, stmts), CallStmt("g", 3)>>

ForProgram(src) ==
    LoopPrelude(src)
    \o LoopWrapped(src, <<ForStatement(LoopInit(src), LoopCondition(src),
                                       LoopIncrement(src), LoopBody(src)),
                          PrintStmt(Str("end", 2))>> \o LoopTail(src))

WhileProgram(src) ==
    LoopPrelude(src)
    \o LoopWrapped(src,
           (IF IsSome(LoopInit(src)) THEN LoopInit(src) ELSE <<>>)
           \o <<While(IF src.cond THEN Unwrap(LoopCondition(src))
                      ELSE Literal(KwTok("True", 1)),
                      Block(<<LoopBody(src)>>
                            \o (IF src.incr THEN <<Expression(Step)>> ELSE <<>>))),
                PrintStmt(Str("end", 2))>>
           \o LoopTail(src))

LoopSources ==
    {[kind |-> "loop", form |-> f, wrap |-> w, init |-> i, cond |-> c, incr |-> n,
      body |-> b, tail |-> t] :
        f \in {"for", "while"}, w \in LoopWraps, i \in LoopInits, c \in BOOLEAN,
        n \in BOOLEAN, b \in LoopBodies, t \in BOOLEAN}

NoSource == [kind |-> "none"]

Program(src) ==
    CASE src.kind = "corpus" -> Corpus[src.index]
      [] src.kind = "generated" -> Generated(src.wrap, src.picks, src.lines)
      [] src.kind = "expr" -> ExprProgram(src)
      [] src.kind = "loop" ->
           IF src.form = "for" THEN ForProgram(src) ELSE WhileProgram(src)
      [] OTHER -> <<>>

(***************************************************************************)
(* The bytecode pipeline (bytecode/): a Chunk of instructions and          *)
(* constants, the single-pass compiler of arithmetic expressions and the   *)
(* stack machine that runs a chunk.                                        *)
(***************************************************************************)
\* enum Precedence, in the order of declaration, which is its PartialOrd
Precedences ==
    <<"None", "Assignment", "Or", "And", "Equality", "Comparison", "Term", "Factor",
      "Unary", "Call", "Primary">>
PrecedenceRank(p) == CHOOSE i \in 1..Len(Precedences) : Precedences[i] = p
PrecedenceLeq(p, q) == PrecedenceRank(p) <= PrecedenceRank(q)

\* Precedence::next; it is called on Term and Factor only
PrecedenceNext(p) == Precedences[PrecedenceRank(p) + 1]

\* TokenType::precedence
Precedence(typ) ==
    CASE typ \in {"Plus", "Minus"} -> "Term"
      [] typ \in {"Star", "Slash"} -> "Factor"
      [] OTHER -> "None"

\* OpCode; the index of a constant counts from 0
Constant(index) == [op |-> "Constant", index |-> index]
OpCode(op) == [op |-> op]

\* Chunk::default
ChunkDefault == [code |-> <<>>, constants |-> <<>>, lines |-> <<>>]

\* Chunk::add_constant
AddConstant(c, value, line) ==
    [code |-> Append(c.code, Constant(Len(c.constants) + 1 - 1)),
     constants |-> Append(c.constants, value),
     lines |-> Append(c.lines, line)]

\* Chunk::write
Write(c, op, line) == [c EXCEPT !.code = Append(@, op), !.lines = Append(@, line)]

\* Chunk::fmt_instruction(offset).is_some(): the offset has an opcode and a line
HasInstruction(c, offset) == offset < Len(c.code) /\ offset < Len(c.lines)

\* Compiler::from: the tokens, how many of them next() has taken, the chunk so
\* far and the result of the call that ran last
CompilerFrom(toks) == [tokens |-> toks, taken |-> 0, chunk |-> ChunkDefault, r |-> Ok(<<>>)]
CompilerErr(c, e) == [c EXCEPT !.r = Err(e)]
Emit(c, op, line) == [c EXCEPT !.chunk = Write(@, op, line)]

RECURSIVE CompilerParse(_, _), CompilerPrefix(_), CompilerInfix(_), InfixLoop(_, _)

\* Compiler::expression
CompilerExpression(c) == CompilerParse(c, "Assignment")

\* the token after a parenthesised expression
CloseParen(c) ==
    IF IsSome(PeekToken(c))
    THEN IF Unwrap(PeekToken(c)).typ # "RightParen"
         THEN CompilerErr(Take(c), UnexpectedToken("RightParen", Unwrap(PeekToken(c))))
         ELSE Take(c)
    ELSE CompilerErr(c, UnexpectedEndOfInput)

\* Compiler::prefix: with no token left it emits nothing and returns Ok(())
CompilerPrefix(c) ==
    IF IsNone(PeekToken(c)) THEN c
    ELSE LET token == Unwrap(PeekToken(c))
             n == Take(c)
         IN  CASE token.typ = "LeftParen" -> Then(CompilerExpression(n), CloseParen)
               [] token.typ = "Minus" ->
                    Then(CompilerParse(n, "Unary"),
                         LAMBDA m : Emit(m, OpCode("Negate"), token.line))
               [] token.typ = "Number" ->
                    [n EXCEPT !.chunk = AddConstant(@, Number(token.num), token.line)]
               [] OTHER -> CompilerErr(n, UnexpectedToken("Number", token))

InfixOp(typ) ==
    CASE typ = "Plus" -> OpCode("Add")
      [] typ = "Minus" -> OpCode("Subtract")
      [] typ = "Star" -> OpCode("Multiply")
      [] typ = "Slash" -> OpCode("Divide")

\* Compiler::infix: with no token left it emits nothing and returns Ok(())
CompilerInfix(c) ==
    IF IsNone(PeekToken(c)) THEN c
    ELSE LET token == Unwrap(PeekToken(c))
             n == Take(c)
         IN  IF token.typ \in {"Plus", "Minus", "Star", "Slash"}
             THEN Then(CompilerParse(n, PrecedenceNext(Precedence(token.typ))),
                       LAMBDA m : Emit(m, InfixOp(token.typ), token.line))
             ELSE CompilerErr(n, UnexpectedToken("Number", token))

\* the loop of Compiler::parse: an infix for each token that binds as tightly
InfixLoop(c, precedence) ==
    IF IsSome(PeekToken(c))
       /\ PrecedenceLeq(precedence, Precedence(Unwrap(PeekToken(c)).typ))
    THEN Then(CompilerInfix(c), LAMBDA n : InfixLoop(n, precedence))
    ELSE c

\* Compiler::parse
CompilerParse(c, precedence) ==
    Then(CompilerPrefix(c), LAMBDA n : InfixLoop(n, precedence))

\* compiler::compile: the chunk of one expression; tokens after it are left
Compile(toks) ==
    LET c == CompilerExpression(CompilerFrom(toks))
    IN  IF c.r.ok THEN Ok(c.chunk) ELSE c.r

\* VirtualMachine::new, with the ip of interpret
VirtualMachineNew == [stack |-> <<>>, ip |-> 0]
InvalidInstructionPointer(ip) == [k |-> "InvalidInstructionPointer", ip |-> ip]

\* the turn goes on, the run returns, or expect() panics on a pop of nothing
Continue(m) == [vm |-> m, r |-> None]
Returned(m, r) == [vm |-> m, r |-> Some(r)]
Panicked(m) == Returned(m, Err(Panic("Popped from empty stack")))

Top(stack) == stack[Len(stack)]
Rest(stack) == SubSeq(stack, 1, Len(stack) - 1)

\* the arms Add, Subtract, Multiply, Divide: b is popped, then a
BinaryInstruction(m, F(_, _), sign) ==
    IF Len(m.stack) = 0 THEN Panicked(m)
    ELSE IF Len(m.stack) = 1 THEN Panicked([m EXCEPT !.stack = <<>>])
    ELSE LET b == Top(m.stack)
             a == Top(Rest(m.stack))
             popped == [m EXCEPT !.stack = Rest(Rest(@))]
         IN  IF a.t = "Number" /\ b.t = "Number"
             THEN Continue([stack |-> Append(popped.stack, Number(F(a.n, b.n))),
                            ip |-> m.ip + 1])
             ELSE Returned(popped,
                           Err(Unimplemented("Binary operation not implemented: " \o sign)))

\* the arm Negate
NegateInstruction(m) ==
    IF Len(m.stack) = 0 THEN Panicked(m)
    ELSE IF Top(m.stack).t = "Number"
         THEN Continue([stack |-> Append(Rest(m.stack), Number(FNeg(Top(m.stack).n))),
                        ip |-> m.ip + 1])
         ELSE Returned([m EXCEPT !.stack = Rest(@)],
                       Err(Unimplemented("Cannot negate non-number")))

FSub(x, y) == FAdd(x, FNeg(y))

\* one turn of the loop of VirtualMachine::interpret, tracing
Instruction(m, c) ==
    IF ~HasInstruction(c, m.ip) THEN Returned(m, Err(InvalidInstructionPointer(m.ip)))
    ELSE LET op == c.code[m.ip + 1]
         IN  CASE op.op = "Return" ->
                    IF Len(m.stack) = 0 THEN Panicked(m)
                    ELSE Returned([m EXCEPT !.stack = Rest(@)], Ok(Top(m.stack)))
               [] op.op = "Add" -> BinaryInstruction(m, FAdd, "+")
               [] op.op = "Subtract" -> BinaryInstruction(m, FSub, "-")
               [] op.op = "Multiply" -> BinaryInstruction(m, FMul, "*")
               [] op.op = "Divide" -> BinaryInstruction(m, FDiv, "/")
               [] op.op = "Negate" -> NegateInstruction(m)
               [] op.op = "Constant" ->
                    Continue([stack |-> Append(m.stack, c.constants[op.index + 1]),
                              ip |-> m.ip + 1])

(***************************************************************************)
(* walker::interpret (walker/mod.rs): scan, parse, resolve, evaluate.      *)
(***************************************************************************)
Init ==
    /\ pc = "scan"
    /\ source = NoSource
    /\ rs = ResolverDefault
    /\ ri = 1
    /\ st = InterpreterNew(<<>>)
    /\ si = 1
    /\ errors = <<>>
    /\ result = "running"
    /\ scanner = ScannerFrom(<<>>)
    /\ items = <<>>
    /\ parser = ParserFrom(<<>>)
    /\ statements = <<>>
    /\ tokenvec = <<>>
    /\ compiled = None
    /\ chunk = ChunkDefault
    /\ vm = VirtualMachineNew
    /\ evaluation = None

\* a scan stage that writes its errors and lets the parse go on
ScanFailGoesOn ==
    /\ pc = "scan"
    /\ \E n \in 1..MaxErrors :
          errors' = errors \o [i \in 1..n |-> "scan error"]
    /\ result' = "Scanner"
    /\ pc' = "parse"
    /\ UNCHANGED <<source, rs, ri, st, si>>
    /\ UNCHANGED <<front, back>>

\* scanner::scan(source).partition_result(): the errors are written, and returned
ScanFail ==
    /\ pc = "scan"
    /\ \E n \in 1..MaxErrors :
          errors' = errors \o [i \in 1..n |-> "scan error"]
    /\ result' = "Scanner"
    /\ pc' = "done"
    /\ UNCHANGED <<source, rs, ri, st, si>>
    /\ UNCHANGED <<front, back>>

ScanOk ==
    /\ pc = "scan"
    /\ pc' = "parse"
    /\ UNCHANGED <<source, rs, ri, st, si, errors, result>>
    /\ UNCHANGED <<front, back>>

ParseFail ==
    /\ pc = "parse"
    /\ \E n \in 1..MaxErrors :
          errors' = errors \o [i \in 1..n |-> "parse error"]
    /\ result' = "Parser"
    /\ pc' = "done"
    /\ UNCHANGED <<source, rs, ri, st, si>>
    /\ UNCHANGED <<front, back>>

ParseCorpus ==
    /\ pc = "parse"
    /\ \E i \in 1..Len(Corpus) : source' = [kind |-> "corpus", index |-> i]
    /\ pc' = "resolve"
    /\ UNCHANGED <<rs, ri, st, si, errors, result>>
    /\ UNCHANGED <<front, back>>

ParseGenerated ==
    /\ pc = "parse"
    /\ \E w \in Wraps, m \in LineModes,
          p \in UNION {[1..n -> PoolItems] : n \in 0..MaxStmts} :
            source' = [kind |-> "generated", wrap |-> w, picks |-> p, lines |-> m]
    /\ pc' = "resolve"
    /\ UNCHANGED <<rs, ri, st, si, errors, result>>
    /\ UNCHANGED <<front, back>>

ParseExpr ==
    /\ pc = "parse"
    /\ \E src \in ExprSources : source' = src
    /\ pc' = "resolve"
    /\ UNCHANGED <<rs, ri, st, si, errors, result>>
    /\ UNCHANGED <<front, back>>

ParseLoop ==
    /\ pc = "parse"
    /\ \E src \in LoopSources : source' = src
    /\ pc' = "resolve"
    /\ UNCHANGED <<rs, ri, st, si, errors, result>>
    /\ UNCHANGED <<front, back>>

\* resolve: one top-level statement; the first error ends the pass
ResolveStep ==
    /\ pc = "resolve"
    /\ ri <= Len(Program(source))
    /\ LET r == ResolveStatement(rs, Program(source)[ri]) IN
         /\ rs' = r
         /\ IF IsSome(r.error)
            THEN /\ errors' = Append(errors, Unwrap(r.error))
                 /\ result' = "Resolver"
                 /\ pc' = "done"
                 /\ ri' = ri
            ELSE /\ ri' = ri + 1
                 /\ UNCHANGED <<errors, result, pc>>
    /\ UNCHANGED <<source, st, si>>
    /\ UNCHANGED <<front, back>>

\* Interpreter::new(streams, locals)
ResolveDone ==
    /\ pc = "resolve"
    /\ ri > Len(Program(source))
    /\ st' = InterpreterNew(rs.locals)
    /\ pc' = "evaluate"
    /\ UNCHANGED <<source, rs, ri, si, errors, result>>
    /\ UNCHANGED <<front, back>>

\* an interpret that writes the error of a statement and goes on with the next
ExecuteStepGoesOn ==
    /\ pc = "evaluate"
    /\ si <= Len(Program(source))
    /\ \E order \in Orders :
         LET x == Execute([st EXCEPT !.order = order], Program(source)[si]) IN
         /\ st' = [x.st EXCEPT !.order = "FalseFirst"]
         /\ IF x.r.ok
            THEN /\ si' = si + 1
                 /\ UNCHANGED <<errors, result, pc>>
            ELSE IF x.r.e.k \in {"Panic", "StackOverflow", "OutOfFuel", "OutOfRange"}
            THEN /\ si' = si
                 /\ pc' = "done"
                 /\ result' = x.r.e.k
                 /\ UNCHANGED errors
            ELSE /\ si' = si + 1
                 /\ result' = "Evaluation"
                 /\ errors' = Append(errors, ErrorDisplay(x.r.e))
                 /\ UNCHANGED pc
    /\ UNCHANGED <<source, rs, ri>>
    /\ UNCHANGED <<front, back>>

\* Interpreter::interpret: one top-level statement; the first error ends the run.  The
\* order in which the HashMaps iterate during the statement is any
ExecuteStep ==
    /\ pc = "evaluate"
    /\ si <= Len(Program(source))
    /\ \E order \in Orders :
         LET x == Execute([st EXCEPT !.order = order], Program(source)[si]) IN
         /\ st' = [x.st EXCEPT !.order = "FalseFirst"]
         /\ IF x.r.ok
            THEN /\ si' = si + 1
                 /\ UNCHANGED <<errors, result, pc>>
            ELSE /\ si' = si
                 /\ pc' = "done"
                 /\ IF x.r.e.k \in {"Panic", "StackOverflow", "OutOfFuel", "OutOfRange"}
                    THEN /\ result' = x.r.e.k
                         /\ UNCHANGED errors
                    ELSE /\ result' = "Evaluation"
                         /\ errors' = Append(errors, ErrorDisplay(x.r.e))
    /\ UNCHANGED <<source, rs, ri>>
    /\ UNCHANGED <<front, back>>

ExecuteDone ==
    /\ pc = "evaluate"
    /\ si > Len(Program(source))
    /\ result' = "Ok"
    /\ pc' = "done"
    /\ UNCHANGED <<source, rs, ri, st, si, errors>>
    /\ UNCHANGED <<front, back>>

Next ==
    \/ ScanFail \/ ScanOk
    \/ ParseFail \/ ParseCorpus \/ ParseGenerated \/ ParseExpr \/ ParseLoop
    \/ ResolveStep \/ ResolveDone
    \/ ExecuteStep \/ ExecuteDone

Spec == Init /\ [][Next]_vars

(***************************************************************************)
(* The scan of a source text, item by item (walker/mod.rs, interpret, up   *)
(* to the call of the parser).  The texts are those of up to MaxText       *)
(* characters of ScanAlphabet and the sources of the scanner's tests.      *)
(***************************************************************************)
MaxText == 4
ScanAlphabet == {"1", ".", "o", "r", "\"", "\n", "@", "/"}

ScannerCases ==
    {<<"1", " ", "+", " ", "2">>,
     <<"\"", "f", "o", "o">>,
     <<"\"", "f", "o", "o", "\"">>,
     <<"\"", "f", "o", "o", "\"", "\n", "\"", "b", "a", "r", "\"">>,
     <<"1", "2", "3">>,
     <<"1", "2", "3", ".", "1", "2", "3">>,
     <<"1", "2", "3", ".">>,
     <<"1", "2", "3", ".", "f", "o", "o">>,
     <<"p", "r", "i", "n", "t", "f", "o", "o">>,
     <<"p", "r", "i", "n", "t", " ", "f", "o", "o">>,
     <<"L">>,
     <<"L", " ", "+", " ", "b", "a", "r">>,
     <<"L", ".", "b", "a", "r">>,
     <<"\"", "L", "\"">>,
     <<"a", "=", "=", "b", "!", "=", "c">>,
     <<"<", "=", ">", "=", "!", "<", ">", "=">>,
     <<"(", ")", "{", "}", ",", "-", "*", ";">>,
     <<"/", "/", " ", "x", "\n", "/", "1">>,
     <<"#", "\n", "\"", "L", "\n", "\"", "_">>,
     <<"_", "a", "\n", "\"", "\n">>}

Texts == ScannerCases \cup UNION {[1..n -> ScanAlphabet] : n \in 0..MaxText}

ScanInit ==
    /\ pc = "read"
    /\ source = NoSource
    /\ rs = ResolverDefault
    /\ ri = 1
    /\ st = InterpreterNew(<<>>)
    /\ si = 1
    /\ errors = <<>>
    /\ result = "running"
    /\ scanner = ScannerFrom(<<>>)
    /\ items = <<>>
    /\ parser = ParserFrom(<<>>)
    /\ statements = <<>>
    /\ tokenvec = <<>>
    /\ compiled = None
    /\ chunk = ChunkDefault
    /\ vm = VirtualMachineNew
    /\ evaluation = None

\* interpret is called with a source text
ReadSource ==
    /\ pc = "read"
    /\ \E text \in Texts : scanner' = ScannerFrom(text)
    /\ pc' = "scan"
    /\ UNCHANGED <<source, rs, ri, st, si, errors, result, items, parser, statements>>
    /\ UNCHANGED back

IsErr(r) == ~r.ok
IsOk(r) == r.ok

\* a scan that ends at its first error
ScanItemStopsAtError ==
    /\ pc = "scan"
    /\ IsSome(ScannerNext(scanner).item)
    /\ scanner' = IF Unwrap(ScannerNext(scanner).item).ok THEN ScannerNext(scanner).sc
                  ELSE AdvanceWhile(ScannerNext(scanner).sc, Chars)
    /\ items' = Append(items, Unwrap(ScannerNext(scanner).item))
    /\ UNCHANGED <<pc, source, rs, ri, st, si, errors, result, parser, statements>>
    /\ UNCHANGED back

\* scanner::scan(source).partition_result(), one item of the iterator
ScanItem ==
    /\ pc = "scan"
    /\ IsSome(ScannerNext(scanner).item)
    /\ scanner' = ScannerNext(scanner).sc
    /\ items' = Append(items, Unwrap(ScannerNext(scanner).item))
    /\ UNCHANGED <<pc, source, rs, ri, st, si, errors, result, parser, statements>>
    /\ UNCHANGED back

\* the iterator is at its end: the errors, if any, are written in their order and the
\* run ends with Scanner; else the tokens go to the parser
ScanEnd ==
    /\ pc = "scan"
    /\ IsNone(ScannerNext(scanner).item)
    /\ scanner' = ScannerNext(scanner).sc
    /\ IF SelectSeq(items, IsErr) # <<>>
       THEN /\ errors' = [i \in 1..Len(SelectSeq(items, IsErr)) |->
                             ScannerErrorDisplay(SelectSeq(items, IsErr)[i].e)]
            /\ result' = "Scanner"
            /\ pc' = "done"
            /\ UNCHANGED parser
       ELSE /\ parser' = ParserFrom([i \in 1..Len(items) |-> items[i].v])
            /\ pc' = "parse"
            /\ UNCHANGED <<errors, result>>
    /\ UNCHANGED <<source, rs, ri, st, si, items, statements>>
    /\ UNCHANGED back

ScanNext == ReadSource \/ ScanItem \/ ScanEnd

ScanSpec == ScanInit /\ [][ScanNext]_vars

(***************************************************************************)
(* The parser at work: parser::parse on the tokens of a source that scans  *)
(* without an error, one declaration a step, and what interpret does with  *)
(* the results.  The sources are the cases below (those of the tests of    *)
(* parser.rs among them) and every sequence of up to MaxTokens words.      *)
(***************************************************************************)
MaxTokens == 3

ParseWords ==
    {<<"1">>, <<"a">>, <<"+">>, <<"*">>, <<"=">>, <<";">>, <<"(">>, <<")">>,
     <<"{">>, <<"}">>, <<"v", "a", "r", " ">>, <<"f", "u", "n", " ">>,
     <<"p", "r", "i", "n", "t", " ">>}

RECURSIVE Flatten(_)
Flatten(words) == IF words = <<>> THEN <<>> ELSE Head(words) \o Flatten(Tail(words))

ParserCases ==
    {
     \* 1 + 2;
     <<"1", " ", "+", " ", "2", ";">>,
     \* (1 + 2);
     <<"(", "1", " ", "+", " ", "2", ")", ";">>,
     \* clock();
     <<"c", "l", "o", "c", "k", "(", ")", ";">>,
     \* tsp2cup(15);
     <<"t", "s", "p", "2", "c", "u", "p", "(", "1", "5", ")", ";">>,
     \* (1 + 2
     <<"(", "1", " ", "+", " ", "2">>,
     \* (1 + 2 foo
     <<"(", "1", " ", "+", " ", "2", " ", "f", "o", "o">>,
     \* print ; print 1; print 2;
     <<"p", "r", "i", "n", "t", " ", ";", " ", "p", "r", "i", "n", "t", " ", "1", ";",
       " ", "p", "r", "i", "n", "t", " ", "2", ";">>,
     \* var = 1; print 2;
     <<"v", "a", "r", " ", "=", " ", "1", ";", " ", "p", "r", "i", "n", "t", " ", "2",
       ";">>,
     \* var a print 1; print 2;
     <<"v", "a", "r", " ", "a", " ", "p", "r", "i", "n", "t", " ", "1", ";", " ", "p",
       "r", "i", "n", "t", " ", "2", ";">>,
     \* { var = 1; print 2; } print 3; print 4;
     <<"{", " ", "v", "a", "r", " ", "=", " ", "1", ";", " ", "p", "r", "i", "n", "t",
       " ", "2", ";", " ", "}", " ", "p", "r", "i", "n", "t", " ", "3", ";", " ", "p",
       "r", "i", "n", "t", " ", "4", ";">>,
     \* { print 1 } print 3;
     <<"{", " ", "p", "r", "i", "n", "t", " ", "1", " ", "}", " ", "p", "r", "i", "n",
       "t", " ", "3", ";">>,
     \* fun f() { var = 1; } print 3; print 4;
     <<"f", "u", "n", " ", "f", "(", ")", " ", "{", " ", "v", "a", "r", " ", "=", " ",
       "1", ";", " ", "}", " ", "p", "r", "i", "n", "t", " ", "3", ";", " ", "p", "r",
       "i", "n", "t", " ", "4", ";">>,
     \* { { 1 + ; } } a; b; c;
     <<"{", " ", "{", " ", "1", " ", "+", " ", ";", " ", "}", " ", "}", " ", "a", ";",
       " ", "b", ";", " ", "c", ";">>,
     \* fun
     <<"f", "u", "n">>,
     \* print 1; fun
     <<"p", "r", "i", "n", "t", " ", "1", ";", " ", "f", "u", "n">>,
     \* fun f(
     <<"f", "u", "n", " ", "f", "(">>,
     \* fun f(a
     <<"f", "u", "n", " ", "f", "(", "a">>,
     \* fun f(a,
     <<"f", "u", "n", " ", "f", "(", "a", ",">>,
     \* fun f(a, b) {}
     <<"f", "u", "n", " ", "f", "(", "a", ",", " ", "b", ")", " ", "{", "}">>,
     \* fun f(a) { return a; }
     <<"f", "u", "n", " ", "f", "(", "a", ")", " ", "{", " ", "r", "e", "t", "u", "r",
       "n", " ", "a", ";", " ", "}">>,
     \* f(a, b);
     <<"f", "(", "a", ",", " ", "b", ")", ";">>,
     \* 1 = 2;
     <<"1", " ", "=", " ", "2", ";">>,
     \* a = 1;
     <<"a", " ", "=", " ", "1", ";">>,
     \* a = b = 1;
     <<"a", " ", "=", " ", "b", " ", "=", " ", "1", ";">>,
     \* (a) = 1;
     <<"(", "a", ")", " ", "=", " ", "1", ";">>,
     \* 2 * 4 + 3;
     <<"2", " ", "*", " ", "4", " ", "+", " ", "3", ";">>,
     \* 1 + 2 * 6;
     <<"1", " ", "+", " ", "2", " ", "*", " ", "6", ";">>,
     \* print 2 * 4 + 3;
     <<"p", "r", "i", "n", "t", " ", "2", " ", "*", " ", "4", " ", "+", " ", "3", ";">>,
     \* 1 - 2 - 3;
     <<"1", " ", "-", " ", "2", " ", "-", " ", "3", ";">>,
     \* 8 / 4 / 2;
     <<"8", " ", "/", " ", "4", " ", "/", " ", "2", ";">>,
     \* -1 * 2;
     <<"-", "1", " ", "*", " ", "2", ";">>,
     \* !a == b;
     <<"!", "a", " ", "=", "=", " ", "b", ";">>,
     \* 1 < 2 == 2 > 1;
     <<"1", " ", "<", " ", "2", " ", "=", "=", " ", "2", " ", ">", " ", "1", ";">>,
     \* a == b and c == d or e;
     <<"a", " ", "=", "=", " ", "b", " ", "a", "n", "d", " ", "c", " ", "=", "=", " ",
       "d", " ", "o", "r", " ", "e", ";">>,
     \* a or b and c;
     <<"a", " ", "o", "r", " ", "b", " ", "a", "n", "d", " ", "c", ";">>,
     \* a = b or c;
     <<"a", " ", "=", " ", "b", " ", "o", "r", " ", "c", ";">>,
     \* 1 + 2 < 3 * 4;
     <<"1", " ", "+", " ", "2", " ", "<", " ", "3", " ", "*", " ", "4", ";">>,
     \* - - 1;
     <<"-", " ", "-", " ", "1", ";">>,
     \* -a(1)(2);
     <<"-", "a", "(", "1", ")", "(", "2", ")", ";">>,
     \* 1 < 2 < 3;
     <<"1", " ", "<", " ", "2", " ", "<", " ", "3", ";">>,
     \* a == b != c;
     <<"a", " ", "=", "=", " ", "b", " ", "!", "=", " ", "c", ";">>,
     \* a and b and c;
     <<"a", " ", "a", "n", "d", " ", "b", " ", "a", "n", "d", " ", "c", ";">>,
     \* a or b or c;
     <<"a", " ", "o", "r", " ", "b", " ", "o", "r", " ", "c", ";">>,
     \* a = 1 + 2 * 3 == 7;
     <<"a", " ", "=", " ", "1", " ", "+", " ", "2", " ", "*", " ", "3", " ", "=", "=",
       " ", "7", ";">>,
     \* if (a) print 1; else print 2;
     <<"i", "f", " ", "(", "a", ")", " ", "p", "r", "i", "n", "t", " ", "1", ";", " ",
       "e", "l", "s", "e", " ", "p", "r", "i", "n", "t", " ", "2", ";">>,
     \* while (a) break;
     <<"w", "h", "i", "l", "e", " ", "(", "a", ")", " ", "b", "r", "e", "a", "k", ";">>,
     \* for (;;) break;
     <<"f", "o", "r", " ", "(", ";", ";", ")", " ", "b", "r", "e", "a", "k", ";">>,
     \* for (var i = 0; i < 3; i = i + 1) print i;
     <<"f", "o", "r", " ", "(", "v", "a", "r", " ", "i", " ", "=", " ", "0", ";", " ",
       "i", " ", "<", " ", "3", ";", " ", "i", " ", "=", " ", "i", " ", "+", " ", "1",
       ")", " ", "p", "r", "i", "n", "t", " ", "i", ";">>,
     \* return;
     <<"r", "e", "t", "u", "r", "n", ";">>,
     \* return 1;
     <<"r", "e", "t", "u", "r", "n", " ", "1", ";">>,
     \* { print 1; }
     <<"{", " ", "p", "r", "i", "n", "t", " ", "1", ";", " ", "}">>,
     \* var a;
     <<"v", "a", "r", " ", "a", ";">>,
     \* // c\n1;
     <<"/", "/", " ", "c", "\n", "1", ";">>,
     \* break
     <<"b", "r", "e", "a", "k">>,
     \* print "s" + nil;
     <<"p", "r", "i", "n", "t", " ", "\"", "s", "\"", " ", "+", " ", "n", "i", "l",
       ";">>,
     \* if (true) {} else false;
     <<"i", "f", " ", "(", "t", "r", "u", "e", ")", " ", "{", "}", " ", "e", "l", "s",
       "e", " ", "f", "a", "l", "s", "e", ";">>}

ParseTexts ==
    ParserCases \cup {Flatten(ws) : ws \in UNION {[1..n -> ParseWords] : n \in 0..MaxTokens}}

\* scanner::scan(source) collected: the results of the scanner, in order
RECURSIVE Collected(_)
Collected(n) ==
    IF IsNone(n.item) THEN <<>> ELSE <<Unwrap(n.item)>> \o Collected(ScannerNext(n.sc))

ScanAll(text) == Collected(ScannerNext(ScannerFrom(text)))

Values(results) == [i \in 1..Len(results) |-> results[i].v]

ParseInit == ScanInit

\* the source is scanned, all its items being tokens
ReadTokens ==
    /\ pc = "read"
    /\ \E text \in ParseTexts : \E scanned \in {ScanAll(text)} :
          /\ \A i \in 1..Len(scanned) : scanned[i].ok
          /\ scanner' = ScannerFrom(text)
          /\ items' = scanned
          /\ parser' = ParserFrom(Values(scanned))
    /\ pc' = "parse"
    /\ UNCHANGED <<source, rs, ri, st, si, errors, result, statements>>
    /\ UNCHANGED back

\* a declaration that is left as soon as its first error is there
DeclarationStepNoRecovery ==
    /\ pc = "parse"
    /\ IsSome(PeekToken(parser))
    /\ parser' = IF Declared(parser).r.ok THEN Declared(parser).p
                 ELSE [Declared(parser).p EXCEPT !.taken = Len(parser.tokens)]
    /\ statements' = Append(statements, Declared(parser).r)
    /\ UNCHANGED <<pc, source, rs, ri, st, si, errors, result, scanner, items>>
    /\ UNCHANGED back

\* Parser::parse, one turn of its loop; a panic ends the process
DeclarationStep ==
    /\ pc = "parse"
    /\ IsSome(PeekToken(parser))
    /\ \E d \in {ParseDeclaration(parser)} :
          /\ parser' = d.p
          /\ IF ~d.r.ok /\ d.r.e.k = "Panic"
             THEN pc' = "done" /\ result' = "Panic" /\ UNCHANGED statements
             ELSE /\ statements' = Append(statements, d.r)
                  /\ UNCHANGED <<pc, result>>
    /\ UNCHANGED <<source, rs, ri, st, si, errors, scanner, items>>
    /\ UNCHANGED back

\* the tokens are used up: the errors, if any, are written in their order and the
\* run ends with Parser; else the statements go to the resolver
ParseEnd ==
    /\ pc = "parse"
    /\ IsNone(PeekToken(parser))
    /\ IF SelectSeq(statements, IsErr) # <<>>
       THEN /\ errors' = [i \in 1..Len(SelectSeq(statements, IsErr)) |->
                             ParserErrorDisplay(SelectSeq(statements, IsErr)[i].e)]
            /\ result' = "Parser"
            /\ pc' = "done"
       ELSE /\ pc' = "resolve"
            /\ UNCHANGED <<errors, result>>
    /\ UNCHANGED <<source, rs, ri, st, si, scanner, items, parser, statements>>
    /\ UNCHANGED back

ParseNext == ReadTokens \/ DeclarationStep \/ ParseEnd

ParseSpec == ParseInit /\ [][ParseNext]_vars

(***************************************************************************)
(* Properties.  Events of a run are read from st.log, the calls of         *)
(* resolve_local from rs.resolved.                                         *)
(***************************************************************************)
Accepted == pc = "evaluate" \/ (pc = "done" /\ result \notin {"Scanner", "Parser", "Resolver"})
Events(kinds) == {i \in 1..Len(st.log) : st.log[i].ev \in kinds}
GlobalFrame == 1

\* the declaration of the function in cell fn, when a fun statement made it
Declarations(fn) == {j \in 1..Len(st.decls) : st.decls[j].fn = fn}
\* the frames of a chain that held a binding of the name when fn was declared
SeenAtDeclaration(fn, chain, name) ==
    {k \in 1..Len(chain) :
        \E j \in Declarations(fn) : <<chain[k], name>> \in st.decls[j].visible}
Innermost(chain, ks) == chain[CHOOSE k \in ks : \A j \in ks : j <= k]

\* a read, inside a call of a declared function, of a name that no frame of the
\* call itself binds
FreeReads ==
    {i \in Events({"get"}) :
        /\ IsSome(st.log[i].call)
        /\ ~st.log[i].local
        /\ Declarations(Unwrap(st.log[i].call).fn) # {}}

ReadsDeclarationBinding(e) ==
    LET call == Unwrap(e.call)
        seen == SeenAtDeclaration(call.fn, call.closure, e.name)
    IN  IF seen = {}
        THEN e.outcome = "Ok" => e.frame = GlobalFrame
        ELSE e.outcome = "Ok" /\ e.frame = Innermost(call.closure, seen)

\* C1: on every call of a user function, a free variable reference of its body reads
\* the binding that was in scope at the function's declaration, whatever the enclosing
\* block declares afterwards
C1_FreeReadsDeclarationScope == \A i \in FreeReads : ReadsDeclarationBinding(st.log[i])

\* the function of a block read a free variable from the block's own frame, which had
\* no binding of the name when the function was declared
C1_ReadsLaterBinding ==
    \E i \in FreeReads :
        /\ st.log[i].outcome = "Ok"
        /\ st.log[i].frame # GlobalFrame
        /\ ~ReadsDeclarationBinding(st.log[i])

\* C2: in a run of an accepted program every reference or assignment that has a
\* recorded depth finds a frame at that depth and a binding of its name in that frame
C2_LocatedNamesAreBound ==
    \A i \in Events({"get", "assign"}) : IsSome(st.log[i].depth) => st.log[i].outcome = "Ok"

\* a reference with a recorded depth failed with UndefinedVariable
C2_LocatedNameUndefined ==
    \E i \in Events({"get"}) :
        IsSome(st.log[i].depth) /\ st.log[i].outcome = "UndefinedVariable"

\* C3: after resolve, the depth table gives every reference and assignment node the
\* depth that resolve_local found for that very node, and no entry to a node for
\* which it found no scope
C3_EntryPerNode ==
    Accepted => \A i \in 1..Len(rs.resolved) :
                   LocalsGet(rs.locals, rs.resolved[i][1]) = rs.resolved[i][2]

\* a node for which resolve_local found no scope is evaluated with the depth of another
C3_GlobalNodeHasDepth ==
    /\ Accepted
    /\ \E i \in 1..Len(rs.resolved) :
          /\ IsNone(rs.resolved[i][2])
          /\ IsSome(LocalsGet(rs.locals, rs.resolved[i][1]))

\* the expression reads the variable somewhere
RECURSIVE ReadsVar(_, _)
ReadsVar(expr, name) ==
    CASE expr.k = "Variable" -> expr.name.lexeme = name
      [] expr.k = "Assign" -> ReadsVar(expr.value, name)
      [] expr.k \in {"Binary", "Logical"} ->
           ReadsVar(expr.left, name) \/ ReadsVar(expr.right, name)
      [] expr.k = "Call" ->
           ReadsVar(expr.callee, name)
             \/ \E i \in 1..Len(expr.args) : ReadsVar(expr.args[i], name)
      [] expr.k \in {"Unary"} -> ReadsVar(expr.right, name)
      [] expr.k = "Grouping" -> ReadsVar(expr.expr, name)
      [] expr.k = "Get" -> ReadsVar(expr.object, name)
      [] expr.k = "Set" -> ReadsVar(expr.object, name) \/ ReadsVar(expr.value, name)
      [] OTHER -> FALSE

\* some var declaration of the statements, at any depth, reads in its initializer the
\* variable it declares
RECURSIVE SelfInit(_)
SelfInit(stmts) ==
    \E i \in 1..Len(stmts) :
       LET s == stmts[i] IN
       CASE s.k = "Var" -> IsSome(s.initializer)
                             /\ ReadsVar(Unwrap(s.initializer), s.name.lexeme)
         [] s.k = "Block" -> SelfInit(s.stmts)
         [] s.k = "Function" -> SelfInit(s.body)
         [] s.k = "If" -> SelfInit(<<s.then>> \o s.els)
         [] s.k = "While" -> SelfInit(<<s.body>>)
         [] OTHER -> FALSE

\* C4: a program with a var declaration whose initializer reads the declared variable,
\* in a block, in a function body or at the top level, is never accepted by resolve
C4_SelfInitRejected == Accepted => ~SelfInit(Program(source))

\* the top-level var a = a; was executed
C4_SelfInitExecuted ==
    /\ Accepted
    /\ si > 1
    /\ \E i \in 1..(si - 1) : SelfInit(<<Program(source)[i]>>)

IsCorpus(program) == source.kind = "corpus" /\ Corpus[source.index] = program
IsShadowInit == IsCorpus(ShadowInit)

\* C5 (as the code has it): var a = 1; { var a = a + 2; print a; } is rejected by
\* resolve, for the read of a in its own initializer; no statement runs, nothing is printed
C5_ShadowInitRejected ==
    IsShadowInit /\ pc \notin {"parse", "resolve"} =>
        /\ pc = "done"
        /\ result = "Resolver"
        /\ errors = <<"Cannot read local variable in its own initializer">>
        /\ st = InterpreterNew(<<>>)

C5_ShadowInitDone == IsShadowInit /\ pc = "done" /\ ri = 2

\* C5 (as the spec has it): the program is accepted and prints 3
C5_ShadowInitPrints3 ==
    IsShadowInit /\ pc = "done" => result = "Ok" /\ st.output = <<"3">>

\* the names a statement declares in the scope it stands in, in order: if and while
\* open no scope for their branches
RECURSIVE DeclaredBy(_)
DeclaredBy(s) ==
    CASE s.k \in {"Var", "Function", "Class"} -> <<s.name.lexeme>>
      [] s.k = "If" ->
           DeclaredBy(s.then) \o (IF IsSome(s.els) THEN DeclaredBy(Unwrap(s.els)) ELSE <<>>)
      [] s.k = "While" -> DeclaredBy(s.body)
      [] OTHER -> <<>>

RECURSIVE DeclaredIn(_)
DeclaredIn(stmts) ==
    IF Len(stmts) = 0 THEN <<>> ELSE DeclaredBy(Head(stmts)) \o DeclaredIn(Tail(stmts))

Repeats(names) == \E i, j \in 1..Len(names) : i < j /\ names[i] = names[j]

\* some block, or some function declaration's parameters and body, declares a name
\* twice (the methods of a class are not looked at: resolve_statement does not visit
\* them)
RECURSIVE DeclaredTwice(_)
DeclaredTwice(stmts) ==
    \E i \in 1..Len(stmts) :
       LET s == stmts[i] IN
       CASE s.k = "Block" -> Repeats(DeclaredIn(s.stmts)) \/ DeclaredTwice(s.stmts)
         [] s.k = "Function" ->
              \/ Repeats([p \in 1..Len(s.params) |-> s.params[p].lexeme] \o DeclaredIn(s.body))
              \/ DeclaredTwice(s.body)
         [] s.k = "If" -> DeclaredTwice(<<s.then>> \o s.els)
         [] s.k = "While" -> DeclaredTwice(<<s.body>>)
         [] OTHER -> FALSE

RECURSIVE ReturnOutside(_)
ReturnOutside(stmts) ==
    \E i \in 1..Len(stmts) :
       LET s == stmts[i] IN
       CASE s.k = "Return" -> TRUE
         [] s.k = "Block" -> ReturnOutside(s.stmts)
         [] s.k = "If" -> ReturnOutside(<<s.then>> \o s.els)
         [] s.k = "While" -> ReturnOutside(<<s.body>>)
         [] OTHER -> FALSE

\* C7: resolve never accepts a program with a return outside every function body,
\* also one in a block, an if or a while and one after a function's declaration, and
\* it rejects a return only when the program has such a return
C7_ReturnOutsideRejected ==
    /\ Accepted => ~ReturnOutside(Program(source))
    /\ rs.error = Some("Cannot return from global scope") => ReturnOutside(Program(source))

\* a return after the end of a function declaration was rejected
C7_ReturnAfterFunction ==
    /\ pc = "done"
    /\ rs.error = Some("Cannot return from global scope")
    /\ ri > 1
    /\ \E i \in 1..(ri - 1) : Program(source)[i].k = "Function"

Untouched == rs = ResolverDefault /\ ri = 1 /\ st = InterpreterNew(<<>>) /\ si = 1
ScanErrors == {i \in 1..Len(errors) : errors[i] = "scan error"}
ParseErrors == {i \in 1..Len(errors) : errors[i] = "parse error"}

\* C8: the stages run in the order scan, parse, resolve, evaluate, each only after
\* every earlier one ended without error: a scan error ends the run before any parse
\* with the Scanner result, a parse error before any resolution, a resolution error
\* before any statement is executed or anything is printed
C8_StagesInOrder ==
    /\ ScanErrors # {} => pc = "done" /\ result = "Scanner" /\ source = NoSource /\ Untouched
    /\ ParseErrors # {} => pc = "done" /\ result = "Parser" /\ source = NoSource /\ Untouched
    /\ IsSome(rs.error) =>
          pc = "done" /\ result = "Resolver" /\ st = InterpreterNew(<<>>) /\ si = 1
    /\ pc = "resolve" => st = InterpreterNew(<<>>) /\ si = 1 /\ errors = <<>>
    /\ pc = "evaluate" => ri > Len(Program(source)) /\ IsNone(rs.error) /\ errors = <<>>
    /\ result = "Scanner" => ScanErrors # {}
    /\ result = "Parser" => ParseErrors # {}
    /\ result = "Resolver" => IsSome(rs.error)

\* a run ended by a scan error
C8_ScanErrorEnds == pc = "done" /\ result = "Scanner" /\ ScanErrors # {}

\* C9: whenever a Block statement has been executed, the active chain is the one it
\* had before the block, however the block was left
C9_BlockRestoresChain ==
    \A i \in Events({"block"}) : st.log[i].after = st.log[i].before

\* a block left by Break kept its frame on the active chain
C9_BreakLeavesFrame ==
    \E i \in Events({"block"}) :
        st.log[i].exit = "Break" /\ Len(st.log[i].after) = Len(st.log[i].before) + 1

\* C10: whenever a call of a user function has ended, by completion, Return, Break or
\* a runtime error, the active chain is the caller's chain as it was before the call,
\* and the chain stored in the function value is the one it held before the call
C10_CallRestoresChain ==
    \A i \in Events({"call"}) :
        st.log[i].after = st.log[i].before /\ st.log[i].stored = st.log[i].closure

\* a call made from a chain other than the closure's ended by Return, after blocks of
\* its body had left frames on the chain
C10_ReturnFromNestedBlocks ==
    \E i \in Events({"call"}) :
        /\ st.log[i].exit = "Return"
        /\ st.log[i].before # st.log[i].closure
        /\ \E j \in Events({"block"}) : j < i /\ st.log[j].exit = "Return"

\* the calls of functions that a fun statement declared
DeclaredCalls == {i \in Events({"call"}) : Declarations(st.log[i].fn) # {}}

\* C11: a closure holds the frames of the chain of its declaration themselves, not
\* copies: every call runs on those frames, so an assignment made in one call is read
\* by the next call (the counter prints 1, 2, 3) and by every other closure and scope
\* on the same frame, and their assignments by it
C11_ClosuresShareFrames ==
    /\ \A i \in DeclaredCalls :
          \A j \in Declarations(st.log[i].fn) : st.log[i].closure = st.decls[j].chain
    /\ IsCorpus(MakeCounter) /\ pc = "done" => result = "Ok" /\ st.output = <<"1", "2", "3">>
    /\ IsCorpus(SharedFrame) /\ pc = "done" => result = "Ok" /\ st.output = <<"1", "11", "12">>

\* the third call of the counter has printed
C11_CounterCalledThrice ==
    IsCorpus(MakeCounter) /\ pc = "done" /\ Len(st.output) = 3
       /\ Cardinality(DeclaredCalls) = 4

\* the exit of a block or of a loop that a Return is leaving
IsReturnExit(e) == e.ev \in {"block", "loop"} /\ e.exit = "Return"
\* the first event after the return statement of event j that is not such an exit
AfterReturn(j) ==
    {k \in (j + 1)..Len(st.log) :
        /\ ~IsReturnExit(st.log[k])
        /\ \A m \in (j + 1)..(k - 1) : IsReturnExit(st.log[m])}

\* C12: once a return statement of a function has run, nothing of the body runs any
\* more and the call in progress ends with the returned value, through any depth of
\* blocks, ifs and loops; return; returns Nil, and so does a call whose body ends without a return
C12_CallYieldsFirstReturn ==
    /\ \A j \in Events({"return"}) :
          /\ st.log[j].bare => st.cells[st.log[j].value] = Nil
          /\ \A k \in AfterReturn(j) :
                IF st.log[k].ev = "apply" THEN st.log[k].callee.t = "Class"
                ELSE /\ st.log[k].ev = "call"
                     /\ st.log[k].exit = "Return"
                     /\ st.log[k].result = Ok(st.log[j].value)
                     /\ st.log[k].out = st.log[j].out
    /\ \A k \in Events({"call"}) :
          /\ st.log[k].exit = "Return" =>
                \E j \in Events({"return"}) : j < k /\ k \in AfterReturn(j)
          /\ st.log[k].exit = "Ok" =>
                st.log[k].result.ok /\ st.cells[st.log[k].result.v] = Nil
    /\ IsCorpus(Fib) /\ pc = "done" => result = "Ok" /\ st.output = <<"2">>

\* a return left a loop and a block of a body that had a statement after them, and the
\* value of the call was printed
C12_ReturnFromLoopPrinted ==
    /\ pc = "done"
    /\ source.kind = "generated" /\ source.wrap = "value" /\ Len(source.picks) = 2
    /\ source.picks[1] = 13
    /\ st.output = <<"1">>
    /\ \E j \in Events({"return"}) : j + 1 \notin AfterReturn(j)

\* g's body has no return: the return; of init, run by Q() in g, ends the call of g
\* and its print "after" never runs
C12_CallEndsOnInitsReturn ==
    /\ IsCorpus(InitReturns) /\ pc = "done"
    /\ st.output = <<"end">>
    /\ \E k \in Events({"call"}) :
          /\ st.log[k].exit = "Return"
          /\ st.log[k - 1].ev = "apply" /\ st.log[k - 1].callee.t = "Class"
          /\ st.log[k - 1].result = Err(ReturnSignal(st.log[k].result.v))
          /\ \A j \in Events({"return"}) : k \notin AfterReturn(j)

\* the exit of a block that a Break is leaving
IsBreakExit(e) == e.ev = "block" /\ e.exit = "Break"
\* the first event after the break statement of event j that is not such an exit
AfterBreak(j) ==
    {k \in (j + 1)..Len(st.log) :
        /\ ~IsBreakExit(st.log[k])
        /\ \A m \in (j + 1)..(k - 1) : IsBreakExit(st.log[m])}

\* C13: a break ends the innermost loop around it and nothing else: nothing of the
\* body, no increment and no further iteration runs before that loop is over, the
\* loop ends without an error so that the statement after it and an outer loop go on
C13_BreakEndsInnermostLoop ==
    /\ \A j \in Events({"break"}) :
          \A k \in AfterBreak(j) :
              st.log[k].ev = "loop" =>
                  st.log[k].exit = "Ok" /\ st.log[k].out = st.log[j].out
    /\ IsCorpus(ForBreak) /\ pc = "done" =>
          result = "Ok" /\ st.output = <<"0", "1", "end">>
    /\ IsCorpus(NestedBreak) /\ pc = "done" =>
          result = "Ok" /\ st.output = <<"in", "0", "in", "1", "end">>

\* the inner loop was left by break twice while the outer loop went on
C13_InnerLoopLeftTwice ==
    /\ IsCorpus(NestedBreak) /\ pc = "done"
    /\ Cardinality(Events({"break"})) = 2
    /\ Cardinality(Events({"loop"})) = 3
    /\ \A j \in Events({"break"}) : \E k \in AfterBreak(j) : st.log[k].ev = "loop"

IsExpr(form) == pc = "done" /\ source.kind = "expr" /\ source.form = form

\* the arity a callee has: a native function's, a user function's parameter count, a
\* class's init's parameter count and zero without an init
ArityOf(v) ==
    CASE v.t = "NativeFunction" -> v.arity
      [] v.t = "Function" -> Len(v.params)
      [] v.t = "Class" -> IF ContainsKey(v.methods, "init")
                          THEN Len(st.cells[v.methods["init"]].params) ELSE 0

WrongCount(k) ==
    /\ st.log[k].callee.t \in {"NativeFunction", "Function", "Class"}
    /\ st.log[k].got # ArityOf(st.log[k].callee)

\* C14: a call with a wrong number of arguments fails with WrongNumberOfArgs naming the
\* callee's arity and the number given, no body has run and the chain is as before
C14_ArityChecked ==
    \A k \in Events({"apply"}) :
        WrongCount(k) =>
            /\ st.log[k].result =
                  Err(WrongNumberOfArgs(ArityOf(st.log[k].callee), st.log[k].got))
            /\ st.log[k].before = st.log[k].after
            /\ st.log[k].mark = k - 1

\* C14, for callees other than a class without init
C14_ArityCheckedWithInit ==
    \A k \in Events({"apply"}) :
        WrongCount(k) /\ (st.log[k].callee.t = "Class" =>
                             ContainsKey(st.log[k].callee.methods, "init")) =>
            /\ st.log[k].result =
                  Err(WrongNumberOfArgs(ArityOf(st.log[k].callee), st.log[k].got))
            /\ st.log[k].before = st.log[k].after
            /\ st.log[k].mark = k - 1

\* class K {} was called with an argument and the run went on to its end
C14_ClassTakesAnyCount ==
    /\ IsExpr("call") /\ source.l = "K" /\ source.n = 1 /\ result = "Ok"
    /\ \E k \in Events({"apply"}) : WrongCount(k) /\ st.log[k].result.ok

\* the value an operand of an expression program has, and what print shows of it
AtomValue(x) ==
    IF Atom(x, 0).k = "Literal" THEN ValueFromToken(Atom(x, 0).value)
    ELSE st.cells[st.frames[GlobalFrame][x]]
Shown(x) == Display(st.cells, AtomValue(x))
\* false and nil alone count as false
Falsy(x) == x \in {"false", "nil"}

C16_OneRuleOfTruth ==
    /\ IsExpr("if") =>
          result = "Ok"
          /\ st.output = <<IF Falsy(source.l) THEN "else" ELSE "then", "unset">>
    /\ IsExpr("while") =>
          result = "Ok"
          /\ st.output = IF Falsy(source.l) THEN <<"unset">> ELSE <<"loop", "unset">>
    /\ IsExpr("unary") /\ source.op = "Bang" =>
          result = "Ok"
          /\ st.output = <<IF Falsy(source.l) THEN "true" ELSE "false", "unset">>
    /\ IsExpr("logical") =>
          result = "Ok"
          /\ Len(st.output) = 2
          /\ (st.output[2] = "unset") = ((source.op = "Or") # Falsy(source.l))
    /\ pc = "done" /\ source.kind = "expr" =>
          \A x \in Atoms : IsTruthy(AtomValue(x)) = ~Falsy(x)

\* 0 and the empty string were taken for true by an if or a while
C16_ZeroAndEmptyAreTrue ==
    /\ \/ IsExpr("if") /\ st.output = <<"then", "unset">>
       \/ IsExpr("while") /\ st.output = <<"loop", "unset">>
    /\ source.l \in {"0", "empty"}

\* the number that a numeric operand of an expression program stands for
IntOf(x) == CASE x = "0" -> 0 [] x = "1" -> 1 [] x = "2" -> 2
Numeric(x) == x \in {"0", "1", "2"}
Textual(x) == x \in {"empty", "hi"}
Kind(x) == AtomValue(x).t

\* what print l op r; shows for two numbers
Arithmetic(a, op, b) ==
    CASE op = "Plus" -> ToString(a + b)
      [] op = "Minus" -> ToString(a - b)
      [] op = "Star" -> ToString(a * b)
      [] op = "Slash" -> IF b = 0 THEN (IF a = 0 THEN "NaN" ELSE "inf")
                         ELSE IF a % b = 0 THEN ToString(a \div b)
                         ELSE "0.5"
      [] op = "Greater" -> Truth(a > b)
      [] op = "GreaterEqual" -> Truth(a >= b)
      [] op = "Less" -> Truth(a < b)
      [] op = "LessEqual" -> Truth(a <= b)

Lower(t) == IF t = "True" THEN "true" ELSE "false"

\* the run of print l op r; printed shown and went on
Prints(shown) == result = "Ok" /\ st.output = <<shown, "unset">>

\* what the table asks of print l op r;
TableHolds(l, op, r) ==
    IF op \in {"EqualEqual", "BangEqual"}
    THEN Prints(Lower(Truth((l = r) = (op = "EqualEqual"))))
    ELSE IF Numeric(l) /\ Numeric(r)
    THEN Prints(IF op \in {"Plus", "Minus", "Star", "Slash"}
                THEN Arithmetic(IntOf(l), op, IntOf(r))
                ELSE Lower(Arithmetic(IntOf(l), op, IntOf(r))))
    ELSE IF Textual(l) /\ Textual(r) /\ op = "Plus"
    THEN Prints(Shown(l) \o Shown(r))
    ELSE /\ result = "Evaluation"
         /\ st.output = <<>>
         /\ errors = <<"Binary operation not implemented: " \o Kind(l) \o " "
                       \o OpDisplay(op) \o " " \o Kind(r)>>

\* C17: print l op r; follows the table: arithmetic and comparison on two Numbers,
\* concatenation on two Strings, == and != on any pair without failing (equal only for
\* the same value), and Unimplemented naming both kinds for everything else
C17_BinaryTable ==
    IsExpr("binary") => TableHolds(source.l, source.op, source.r)

\* a function, or a class whose method closes over the frame that holds the class, is
\* compared with itself
SelfReference == source.l = source.r /\ source.l \in {"f", "P"}

\* C17, apart from == and != of such a value with itself
C17_BinaryTableApartFromSelfReference ==
    IsExpr("binary") /\ ~(source.op \in {"EqualEqual", "BangEqual"} /\ SelfReference) =>
        TableHolds(source.l, source.op, source.r)

\* print f == f; ended in a stack overflow
C17_FunctionEqualsItselfOverflows ==
    /\ IsExpr("binary") /\ source.op = "EqualEqual" /\ source.l = "f" /\ source.r = "f"
    /\ result = "StackOverflow" /\ st.output = <<>>

\* what print r(15, ...); shows with the right number of arguments: what the body
\* prints, then the value of the call
CallShown(r) ==
    CASE r = "clock" -> <<"0">>
      [] r = "tsp2cup" -> <<"0.3125">>
      [] r = "f" -> <<"15", "nil">>
      [] r = "K" -> <<"<instance of <cls K>>">>
      [] r = "P" -> <<"15", "<instance of <cls P>>">>
RightCount(r, n) == n = (IF r \in {"clock", "K"} THEN 0 ELSE 1)
Last(q) == q[Len(q)]

\* print a = r; shows the value of r and a holds it afterwards
AssignHolds ==
    /\ result = "Ok"
    /\ st.output = IF source.op = "call" THEN CallShown(source.r) \o <<Last(CallShown(source.r))>>
                   ELSE <<Shown(source.r), Shown(source.r)>>
    /\ \E k \in Events({"assign"}) :
          /\ st.log[k].name = "a"
          /\ st.frames[GlobalFrame]["a"] = st.frames[st.log[k].frame]["a"]

\* C18: print a = r; prints the value of r, and the print a; after it prints the same;
\* var b; print b; prints nil
C18_AssignYieldsValue ==
    /\ IsExpr("assign") /\ (source.op = "call" => RightCount(source.r, source.n)) =>
          AssignHolds
    /\ IsExpr("var") => result = "Ok" /\ st.output = <<"nil", "unset">>

\* C18, apart from a value that calls a user function or a class with init
C18_AssignYieldsValueWithoutCall ==
    /\ IsExpr("assign") /\ (source.op = "call" => RightCount(source.r, source.n))
          /\ ~(source.op = "call" /\ source.r \in {"f", "P"}) =>
          AssignHolds
    /\ IsExpr("var") => result = "Ok" /\ st.output = <<"nil", "unset">>

\* print a = f(15); ended in a panic before the body of f had run
C18_AssignOfCallPanics ==
    /\ IsExpr("assign") /\ source.op = "call" /\ source.r = "f" /\ source.n = 1
    /\ result = "Panic" /\ st.output = <<>>

\* C19: an assignment to a name that its target frame does not hold fails with
\* UndefinedVariable and binds nothing: print z = r; without a declaration of z ends
\* the run with that error, and no assignment ever adds a name to a frame
C19_AssignNeverDeclares ==
    /\ \A k \in Events({"assign"}) : st.log[k].outcome # "Created"
    /\ IsExpr("create") =>
          /\ result = "Evaluation"
          /\ errors = <<"Undefined variable z">>
          /\ st.output = <<>>
          /\ \A i \in 1..Len(st.frames) : ~ContainsKey(st.frames[i], "z")

\* print z = r; printed the value and left z bound in the global frame
C19_AssignDeclared ==
    /\ IsExpr("create") /\ result = "Ok"
    /\ st.output = <<Shown(source.r), "unset">>
    /\ ContainsKey(st.frames[GlobalFrame], "z")
    /\ \E k \in Events({"assign"}) : st.log[k].name = "z" /\ st.log[k].outcome = "Created"

\* the cell that a global variable refers to
Global(x) == st.frames[GlobalFrame][x]

\* C20: a set writes the one field of the one instance: that instance's table gets the
\* value under the name, every other cell (the class, the other instances) is as
\* before; a variable that refers to the instance reads the value, another instance
\* and a new one still read the class's method, and an instance that was never set
\* holds the class's method table
C20_SetWritesOneInstance ==
    /\ \A k \in Events({"set"}) :
          LET e == st.log[k] IN
          /\ DOMAIN e.after = DOMAIN e.before
          /\ e.after[e.object].fields[e.name] = e.value
          /\ e.after[e.object].class = e.before[e.object].class
          /\ \A n \in DOMAIN e.before[e.object].fields \ {e.name} :
                e.after[e.object].fields[n] = e.before[e.object].fields[n]
          /\ \A c \in DOMAIN e.before : c # e.object => e.after[c] = e.before[c]
    /\ IsCorpus(Fields) /\ pc = "done" =>
          /\ result = "Ok"
          /\ st.output = <<"1", "v", "<fun m/0>", "<fun m/0>">>
          /\ Global("p") = Global("o")
          /\ st.cells[Global("q")].fields = st.cells[Global("M")].methods
          /\ DOMAIN st.cells[Global("o")].fields = {"m", "x"}

\* both sets of the program ran, on an instance that two variables refer to, while
\* another instance of the class existed
C20_TwoFieldsSet ==
    /\ IsCorpus(Fields) /\ pc = "done"
    /\ Cardinality(Events({"set"})) = 2
    /\ \A k \in Events({"set"}) :
          st.log[k].object = Global("p") /\ st.log[k].object # Global("q")
    /\ st.cells[Global("q")].t = "Instance"

\* what a failed statement leaves alone: the cells there were, the frames, the chain
\* and the output
Unmodified ==
    /\ st'.frames = st.frames
    /\ st'.environments = st.environments
    /\ st'.output = st.output
    /\ \A c \in DOMAIN st.cells : st'.cells[c] = st.cells[c]

AttributeStatement ==
    /\ pc = "evaluate" /\ source.kind = "expr" /\ source.form \in {"get", "set"}
    /\ si = Len(Prelude) + 1

C22_ThisIsReceiver ==
    IsCorpus(Receivers) /\ pc = "done" => result = "Ok" /\ st.output = <<"o", "q">>

\* o.who was bound with a frame holding this = o, the call ran its body, and the lookup
\* of this went to the global frame and failed
C22_ThisLookedUpInGlobals ==
    /\ IsCorpus(Receivers) /\ pc = "done"
    /\ result = "Evaluation" /\ errors = <<"Undefined variable this">>
    /\ st.output = <<>>
    /\ \E k \in Events({"get"}) :
          /\ st.log[k].name = "this" /\ st.log[k].depth = None
          /\ st.log[k].frame = GlobalFrame
          /\ st.log[k].outcome = "UndefinedVariable"
    /\ \E f \in DOMAIN st.frames :
          /\ ContainsKey(st.frames[f], "this")
          /\ st.frames[f]["this"] = st.frames[GlobalFrame]["o"]

\* resolve and Interpreter::interpret over a whole program: what is printed and how
\* the run ends
RunResult(x) ==
    IF x.r.ok THEN "Ok"
    ELSE IF x.r.e.k \in {"Panic", "StackOverflow", "OutOfFuel", "OutOfRange"} THEN x.r.e.k
    ELSE "Evaluation"

Interpreted(x) == [output |-> x.st.output, result |-> RunResult(x)]

Walk(program) ==
    LET r == ResolveStatements(ResolverDefault, program) IN
    IF IsSome(r.error) THEN [output |-> <<>>, result |-> "Resolver"]
    ELSE Interpreted(ExecuteAll(InterpreterNew(r.locals), program))

IsLoop(form) == pc = "done" /\ source.kind = "loop" /\ source.form = form

\* C23: the run of a for statement prints what the run of the while loop written by
\* hand prints and ends as it does, for each of init, cond and incr given or left out
C23_ForIsWhile ==
    IsLoop("for") =>
        /\ st.output = Walk(WhileProgram(source)).output
        /\ result = Walk(WhileProgram(source)).result

\* for (var i = 0; i < 2; i = i + 1) print i; print "end"; printed 0, 1, end, and
\* for (;;) { print i; if (i >= 1) break; } printed 0, 0, ... until stopped
C23_ForCounted ==
    /\ IsLoop("for") /\ source.wrap = "top"
    /\ source.init = "var" /\ source.cond /\ source.incr
    /\ source.body = "print"
    /\ result = "Ok" /\ st.output = <<"0", "1", "end">>

RuntimeKinds ==
    {"UndefinedVariable", "NotCallable", "WrongNumberOfArgs", "Unimplemented",
     "OnlyInstancesHaveAttributes"}

\* the runtime error that event k of the log shows: a lookup that found nothing, a
\* call that failed
Failure(k) ==
    IF st.log[k].ev = "get" /\ st.log[k].outcome = "UndefinedVariable"
    THEN Some(UndefinedVariable(st.log[k].name))
    ELSE IF st.log[k].ev = "apply" /\ ~st.log[k].result.ok
            /\ st.log[k].result.e.k \in RuntimeKinds
    THEN Some(st.log[k].result.e)
    ELSE None

\* event j is the way out of a call, a block or a loop with an error
Unwinding(j) ==
    CASE st.log[j].ev \in {"apply", "call"} -> ~st.log[j].result.ok
      [] st.log[j].ev \in {"block", "loop"} -> st.log[j].exit \in RuntimeKinds
      [] OTHER -> FALSE

ErrorEndsRun ==
    \A k \in DOMAIN st.log :
        IsSome(Failure(k)) =>
            /\ pc = "done" /\ result = "Evaluation"
            /\ errors = <<ErrorDisplay(Unwrap(Failure(k)))>>
            /\ \A j \in (k + 1)..Len(st.log) : Unwinding(j)

\* the statement of an expression program that cannot but fail: - on what is no number,
\* -, * or / with an operand that is no number, an attribute of what is no instance
Mismatched ==
    /\ source.kind = "expr"
    /\ \/ /\ source.form = "unary" /\ source.op = "Minus"
          /\ AtomValue(source.l).t # "Number"
       \/ /\ source.form = "binary" /\ source.op \in {"Minus", "Star", "Slash"}
          /\ "Number" \notin {AtomValue(source.l).t, AtomValue(source.r).t}
       \/ /\ source.form \in {"get", "set"}
          /\ AtomValue(source.l).t # "Instance"

MismatchEndsRun ==
    pc = "done" /\ Mismatched =>
        /\ result = "Evaluation" /\ Len(errors) = 1
        /\ si = Len(Prelude) + 1
        /\ st.output = <<>>

ErrorKeepsOutput ==
    pc = "evaluate" /\ result' = "Evaluation" =>
        /\ pc' = "done" /\ si' = si /\ si <= Len(Program(source))
        /\ SubSeq(st'.output, 1, Len(st.output)) = st.output
        /\ errors = <<>> /\ Len(errors') = 1

\* C24: once a lookup or a call has failed with a runtime error nothing but the way out
\* of the enclosing calls, blocks and loops follows, the run is over with Evaluation,
\* as it is at a statement with an operator or attribute its operand does not allow,
\* the error sink holds that error's message, what was printed before is still there,
\* and no statement runs after the run is over
C24_RuntimeErrorStops ==
    /\ [](ErrorEndsRun /\ MismatchEndsRun /\ (pc = "done" => ~ENABLED Next))
    /\ [][ErrorKeepsOutput]_vars

\* print f(15, 15); failed on the arity after the declarations before it had run
C24_StoppedAtWrongArity ==
    /\ IsExpr("call") /\ source.l = "f" /\ source.n = 2
    /\ result = "Evaluation"
    /\ errors = <<"Wrong number of arguments: expected 1, got 2">>
    /\ si = Len(Prelude) + 1 /\ si < Len(Program(source))
    /\ st.output = <<>>

\* the scopes of call i of resolve_local that hold the name it looked for, as 0-based
\* positions from the outermost
Holding(i) ==
    {p \in 0..(Len(rs.resolved[i][3]) - 1) :
        ContainsKey(rs.resolved[i][3][p + 1], rs.resolved[i][1].name.lexeme)}

InnermostHolding(i) == CHOOSE p \in Holding(i) : \A q \in Holding(i) : q <= p

\* C30 as stated: what resolve_local records is the number of scopes between the
\* current scope and the innermost scope that contains the name
C30_RecordsDistance ==
    \A i \in 1..Len(rs.resolved) :
        rs.resolved[i][2] =
            IF Holding(i) = {} THEN None
            ELSE Some(Len(rs.resolved[i][3]) - 1 - InnermostHolding(i))

\* C30: what resolve_local records is the position, counted from the outermost scope
\* as 0, of the innermost scope that contains the name, and nothing when no scope
\* contains it
C30_RecordsPosition ==
    \A i \in 1..Len(rs.resolved) :
        rs.resolved[i][2] = IF Holding(i) = {} THEN None ELSE Some(InnermostHolding(i))

\* var a = "global"; { var a = "block"; { var a = 2; print a; } }: the a printed is in
\* the current scope, the second of two, and 1 was recorded, and the run printed 2
C30_InnerScopeRecordedAsOne ==
    /\ pc = "done" /\ result = "Ok" /\ st.output = <<"2">>
    /\ \E i \in 1..Len(rs.resolved) :
          /\ Len(rs.resolved[i][3]) = 2
          /\ Holding(i) = {0, 1}
          /\ rs.resolved[i][2] = Some(1)

(***************************************************************************)
(* Properties of the scan (ScanSpec).                                      *)
(***************************************************************************)
Count(text, k, chars) == Cardinality({j \in 1..(k - 1) : text[j] \in chars})

\* the characters no token starts with, outside string literals, in a text without
\* comments: those with an even number of quotes before them
Unexpected(text) ==
    {k \in 1..Len(text) :
        /\ text[k] \notin Digits \cup Letters \cup Whitespace \cup Punctuation \cup {"\""}
        /\ Count(text, k, {"\""}) % 2 = 0}

\* the errors of the characters at the positions ks, in the order of the positions
RECURSIVE UnexpectedIn(_, _)
UnexpectedIn(text, ks) ==
    IF ks = {} THEN <<>>
    ELSE LET k == CHOOSE i \in ks : \A j \in ks : i <= j IN
         <<UnexpectedCharacter(Count(text, k, {"\n"}), text[k])>>
         \o UnexpectedIn(text, ks \ {k})

\* the errors a text without comments holds, in source order: its unexpected
\* characters, and the string literal left open at its end
ErrorsOf(text) ==
    UnexpectedIn(text, Unexpected(text))
    \o (IF Count(text, Len(text) + 1, {"\""}) % 2 = 1
        THEN <<UnterminatedString(Count(text, Len(text) + 1, {"\n"}))>> ELSE <<>>)

Displays(errs) == [i \in 1..Len(errs) |-> ScannerErrorDisplay(errs[i])]

Produced == [i \in 1..Len(SelectSeq(items, IsErr)) |-> SelectSeq(items, IsErr)[i].e]

HasComment(text) == \E k \in 1..Len(text) : text[k] = "/"

ScanIsComplete ==
    pc \in {"parse", "done"} =>
        /\ scanner.cursor = Len(scanner.source)
        /\ ~HasComment(scanner.source) => Produced = ErrorsOf(scanner.source)
        /\ IF Produced # <<>>
           THEN pc = "done" /\ result = "Scanner" /\ errors = Displays(Produced)
           ELSE pc = "parse" /\ result = "running" /\ errors = <<>>

ItemTakesCharacter ==
    items' # items => Len(items') = Len(items) + 1 /\ scanner'.cursor > scanner.cursor

ItemsAreBounded == Len(items) <= scanner.cursor /\ scanner.cursor <= Len(scanner.source)

\* C25: the scan goes to the end of the source whatever errors it meets; every
\* unexpected character and unterminated string of the text is among the items, in
\* source order, and all of them are written, in that order, when the run ends with
\* Scanner; each item takes at least one character, so that there are never more
\* items than characters taken
C25_ScanGoesOnAfterErrors ==
    /\ [](ScanIsComplete /\ ItemsAreBounded)
    /\ [][ItemTakesCharacter]_vars

\* @ on line 0 and a string left open on line 1: both errors written, in that order
C25_TwoErrorsWritten ==
    /\ scanner.source = <<"@", "\n", "\"", "o">>
    /\ pc = "done" /\ result = "Scanner"
    /\ errors = <<"Unexpected character on line 0: @", "Unterminated string on line 1">>

\* ---- number literals and lexemes (scanner.rs, the '0'..='9' arm) ----

RECURSIVE Join(_, _, _)
Join(text, from, to) == IF from > to THEN "" ELSE text[from] \o Join(text, from + 1, to)

\* the item just produced is a token covering the characters from + 1 .. cursor,
\* the characters skipped before it being whitespace
Covers(from) ==
    /\ scanner.cursor <= from /\ from < scanner'.cursor
    /\ \A k \in (scanner.cursor + 1)..from : scanner.source[k] \in Whitespace
    /\ items'[Len(items')].v.lexeme = Join(scanner.source, from + 1, scanner'.cursor)

Points(text, from, to) == {k \in from..to : text[k] = "."}

\* the characters from + 1 .. to are a number literal, as long as it can be
NumberShape(text, from, to) ==
    /\ \A k \in (from + 1)..to : text[k] \in Digits \cup {"."}
    /\ text[from + 1] \in Digits /\ text[to] \in Digits
    /\ Cardinality(Points(text, from + 1, to)) <= 1
    /\ to < Len(text) => text[to + 1] \notin Digits
    /\ (to + 1 < Len(text) /\ text[to + 1] = "." /\ text[to + 2] \in Digits)
            => Points(text, from + 1, to) # {}

LexemeIsSlice ==
    (items' # items /\ items'[Len(items')].ok) =>
        /\ \E from \in 0..Len(scanner.source) : Covers(from)
        /\ items'[Len(items')].v.typ = "Number" =>
               \A from \in 0..Len(scanner.source) :
                   Covers(from) => NumberShape(scanner.source, from, scanner'.cursor)
        /\ IsCharBoundary(scanner.source, scanner'.lexeme_start)
        /\ scanner'.current_offset = OffsetOf(scanner.source, scanner'.cursor)

Kinds == [i \in 1..Len(items) |-> IF items[i].ok THEN items[i].v.typ ELSE "Err"]

Lexemes == [i \in 1..Len(items) |-> IF items[i].ok THEN items[i].v.lexeme ELSE "Err"]

Scanning(text) == scanner.source = text /\ pc \in {"parse", "done"}

NumberCases ==
    /\ Scanning(<<"1", "2", "3", ".", "1", "2", "3">>) =>
           /\ Kinds = <<"Number">> /\ Lexemes = <<"123.123">>
           /\ items[1].v.num = Ratio(1, 123123, 1000)
    /\ Scanning(<<"1", "2", "3", ".">>) =>
           /\ Kinds = <<"Number", "Dot">> /\ Lexemes = <<"123", ".">>
           /\ items[1].v.num = Ratio(1, 123, 1)
    /\ Scanning(<<"1", "2", "3", ".", "f", "o", "o">>) =>
           /\ Kinds = <<"Number", "Dot", "Identifier">>
           /\ Lexemes = <<"123", ".", "foo">>
    /\ Scanning(<<"1", ".", "1", ".">>) => Lexemes = <<"1.1", ".">>
    /\ Scanning(<<"1", ".", ".", "1">>) => Lexemes = <<"1", ".", ".", "1">>
    /\ Scanning(<<"L", ".", "b", "a", "r">>) => Lexemes = <<"L", ".", "bar">>

\* C29: a point belongs to a number literal only when a digit follows it, so
\* 123.123 is one Number while 123. and 123.foo are Number 123, Dot (and the
\* Identifier); the lexeme of every token is the slice of the source it covers
C29_PointNeedsDigit == []NumberCases /\ [][LexemeIsSlice]_vars

C29_NumberThenDot ==
    /\ Scanning(<<"1", "2", "3", ".", "f", "o", "o">>)
    /\ Kinds = <<"Number", "Dot", "Identifier">>

\* ---- recovery after a parse error (parser.rs, synchronize and declaration) ----

Parsing(text) == scanner.source = text /\ pc \in {"resolve", "done"}

Failures == SelectSeq(statements, IsErr)

\* a turn of the loop of parse takes a token at least
DeclarationTakesToken == (pc = "parse" /\ parser' # parser) => parser'.taken > parser.taken

\* where a call of synchronize may end: behind a semicolon, before a token that
\* starts a statement, or at the end of the tokens
RecoveryPoint(p, at) ==
    \/ at = Len(p.tokens)
    \/ at > 0 /\ p.tokens[at].typ = "Semicolon"
    \/ p.tokens[at + 1].typ \in StatementStart

\* a failed statement is followed by one call of synchronize, after which the
\* parser goes on where that call ended
RecoveredOnce ==
    (statements' # statements /\ ~Last(statements').ok) =>
        /\ Len(parser'.synced) = Len(parser.synced) + 1
        /\ parser'.taken = Last(parser'.synced)[2]
        /\ RecoveryPoint(parser', parser'.taken)

NestedFailure ==
    <<"{", " ", "v", "a", "r", " ", "=", " ", "1", ";", " ", "p", "r", "i", "n", "t", " ",
      "2", ";", " ", "}", " ", "p", "r", "i", "n", "t", " ", "3", ";", " ", "p", "r", "i",
      "n", "t", " ", "4", ";">>

Printed == {statements[i].v.expr.value.lexeme :
               i \in {j \in 1..Len(statements) :
                          statements[j].ok /\ statements[j].v.k = "Print"}}

\* the one failed statement of { var = 1; print 2; } print 3; print 4; gives one
\* error, and print 3; and print 4; are parsed
NestedRecovers ==
    Parsing(NestedFailure) => Len(Failures) = 1 /\ {"3", "4"} \subseteq Printed

\* C26: parse ends on every token sequence with one error for each failed statement:
\* the tokens up to and including the next semicolon, or up to a token that starts a
\* statement, are skipped once and the statements behind them are parsed, also when
\* the failed statement is inside a block or a function body
C26_OneErrorPerFailedStatement ==
    []NestedRecovers /\ [][DeclarationTakesToken /\ RecoveredOnce]_vars

\* the failure inside the block ran synchronize twice, which skipped print 2; the
\* brace left over failed in its turn, and print 3; was skipped after it
C26_NestedFailureSkipsOn ==
    /\ Parsing(NestedFailure) /\ result = "Parser"
    /\ parser.synced = <<<<2, 5>>, <<5, 8>>, <<9, 12>>>>
    /\ Len(errors) = 2 /\ Printed = {"4"}

\* at the top level a failed statement is followed by one call of synchronize
TopLevelFailure == <<"v", "a", "r", " ", "=", " ", "1", ";", " ", "p", "r", "i", "n", "t", " ", "2", ";">>

C26_TopLevelRecovers ==
    /\ Parsing(TopLevelFailure) /\ result = "Parser"
    /\ parser.synced = <<<<1, 4>>>> /\ Len(errors) = 1 /\ Printed = {"2"}

\* ---- the failures of the parser (parser.rs, ParserError and function) ----

FailureKinds == {statements[i].e.k : i \in {j \in 1..Len(statements) : ~statements[j].ok}}

\* C27: a parse failure is an UnexpectedToken or an UnexpectedEndOfInput value:
\* no token sequence, one that ends right behind fun or inside a parameter list
\* included, aborts the process or gives a failure of another kind
C27_FailuresAreErrorValues ==
    /\ result # "Panic"
    /\ FailureKinds \subseteq {"UnexpectedToken", "UnexpectedEndOfInput"}

\* the source fun: the name is missing at the end of the input, and the unwrap of
\* Err(UnexpectedEndOfInput) aborts the parser before any result is there
C27_FunAtEndPanics ==
    /\ scanner.source = <<"f", "u", "n">> /\ pc = "done"
    /\ result = "Panic" /\ statements = <<>> /\ errors = <<>>
    /\ parser.taken = 1

\* inside a parameter list the end of the input is an error value
ParameterListEnds ==
    (Parsing(<<"f", "u", "n", " ", "f", "(", "a">>) \/ Parsing(<<"f", "u", "n", " ", "f", "(">>))
        => result = "Parser" /\ errors = <<"Unexpected end of input">>

\* 1 = 2; fails with the third kind of ParserError
InvalidTarget ==
    Parsing(<<"1", " ", "=", " ", "2", ";">>)
        => result = "Parser" /\ errors = <<"Invalid assignment target">>

\* ---- precedence and associativity (parser.rs, assignment .. unary) ----

\* the level of the rule that makes an expression, assignment the loosest
Level(e) ==
    CASE e.k = "Assign" -> 1
      [] e.k = "Logical" -> IF e.op.typ = "Or" THEN 2 ELSE 3
      [] e.k = "Binary" ->
           (CASE e.op.typ \in {"BangEqual", "EqualEqual"} -> 4
              [] e.op.typ \in {"Greater", "GreaterEqual", "Less", "LessEqual"} -> 5
              [] e.op.typ \in {"Minus", "Plus"} -> 6
              [] e.op.typ \in {"Slash", "Star"} -> 7)
      [] e.k = "Unary" -> 8
      [] OTHER -> 9

\* no operand is made by a looser rule than its place allows: the left operand of
\* a binary operator by its level or a tighter one, the right operand by a tighter
\* one, the value of an assignment by any
RECURSIVE WellNested(_)
WellNested(e) ==
    CASE e.k \in {"Binary", "Logical"} ->
           /\ Level(e.left) >= Level(e) /\ Level(e.right) > Level(e)
           /\ WellNested(e.left) /\ WellNested(e.right)
      [] e.k = "Unary" -> Level(e.right) >= 8 /\ WellNested(e.right)
      [] e.k = "Assign" -> WellNested(e.value)
      [] e.k = "Grouping" -> WellNested(e.expr)
      [] e.k = "Call" ->
           /\ Level(e.callee) = 9 /\ WellNested(e.callee)
           /\ \A i \in 1..Len(e.args) : WellNested(e.args[i])
      [] OTHER -> TRUE

\* the lexemes of the tokens an expression was made of, in their order
RECURSIVE Yield(_)
Yield(e) ==
    CASE e.k \in {"Binary", "Logical"} -> Yield(e.left) \o <<e.op.lexeme>> \o Yield(e.right)
      [] e.k = "Unary" -> <<e.op.lexeme>> \o Yield(e.right)
      [] e.k = "Assign" -> <<e.name.lexeme, "=">> \o Yield(e.value)
      [] e.k = "Grouping" -> <<"(">> \o Yield(e.expr) \o <<")">>
      [] e.k = "Call" ->
           Yield(e.callee) \o <<"(">>
           \o (IF e.args = <<>> THEN <<>> ELSE Yield(e.args[1])) \o <<")">>
      [] e.k = "Literal" -> <<e.value.lexeme>>
      [] e.k = "Variable" -> <<e.name.lexeme>>

\* the expression with every operator application in parentheses
RECURSIVE Shape(_)
Shape(e) ==
    CASE e.k \in {"Binary", "Logical"} ->
           "(" \o Shape(e.left) \o " " \o e.op.lexeme \o " " \o Shape(e.right) \o ")"
      [] e.k = "Unary" -> "(" \o e.op.lexeme \o Shape(e.right) \o ")"
      [] e.k = "Assign" -> "(" \o e.name.lexeme \o " = " \o Shape(e.value) \o ")"
      [] e.k = "Grouping" -> "group" \o Shape(e.expr)
      [] e.k = "Call" ->
           Shape(e.callee) \o "(" \o (IF e.args = <<>> THEN "" ELSE Shape(e.args[1])) \o ")"
      [] e.k = "Literal" -> e.value.lexeme
      [] e.k = "Variable" -> e.name.lexeme

TakenLexemes(tokens, from, to) == [i \in 1..(to - from) |-> tokens[from + i].lexeme]

\* the statement just parsed is an expression statement or a print statement: its
\* expression is well nested and is made of the tokens taken, in their order
ExpressionIsWellNested ==
    (/\ pc = "parse" /\ statements' # statements /\ Last(statements').ok
     /\ Last(statements').v.k \in {"Expression", "Print"}) =>
        /\ WellNested(Last(statements').v.expr)
        /\ (IF Last(statements').v.k = "Print" THEN <<"print">> ELSE <<>>)
             \o Yield(Last(statements').v.expr) \o <<";">>
           = TakenLexemes(parser.tokens, parser.taken, parser'.taken)

\* the source is one expression statement that parsed to the shape
ParsesAs(text, shape) ==
    Parsing(text) =>
        /\ Len(statements) = 1 /\ statements[1].ok /\ statements[1].v.k = "Expression"
        /\ Shape(statements[1].v.expr) = shape

PrecedenceCases ==
    /\ ParsesAs(<<"2", " ", "*", " ", "4", " ", "+", " ", "3", ";">>, "((2 * 4) + 3)")
    /\ ParsesAs(<<"1", " ", "+", " ", "2", " ", "*", " ", "6", ";">>, "(1 + (2 * 6))")
    /\ ParsesAs(<<"1", " ", "-", " ", "2", " ", "-", " ", "3", ";">>, "((1 - 2) - 3)")
    /\ ParsesAs(<<"8", " ", "/", " ", "4", " ", "/", " ", "2", ";">>, "((8 / 4) / 2)")
    /\ ParsesAs(<<"-", "1", " ", "*", " ", "2", ";">>, "((-1) * 2)")
    /\ ParsesAs(<<"!", "a", " ", "=", "=", " ", "b", ";">>, "((!a) == b)")
    /\ ParsesAs(<<"1", " ", "+", " ", "2", " ", "<", " ", "3", " ", "*", " ", "4", ";">>,
                "((1 + 2) < (3 * 4))")
    /\ ParsesAs(<<"1", " ", "<", " ", "2", " ", "=", "=", " ", "2", " ", ">", " ", "1", ";">>,
                "((1 < 2) == (2 > 1))")
    /\ ParsesAs(<<"a", " ", "=", "=", " ", "b", " ", "a", "n", "d", " ", "c", " ", "=", "=",
                  " ", "d", " ", "o", "r", " ", "e", ";">>,
                "(((a == b) and (c == d)) or e)")
    /\ ParsesAs(<<"a", " ", "o", "r", " ", "b", " ", "a", "n", "d", " ", "c", ";">>,
                "(a or (b and c))")
    /\ ParsesAs(<<"a", " ", "=", " ", "b", " ", "o", "r", " ", "c", ";">>, "(a = (b or c))")
    /\ ParsesAs(<<"a", " ", "=", " ", "b", " ", "=", " ", "1", ";">>, "(a = (b = 1))")
    /\ ParsesAs(<<"a", " ", "=", " ", "1", " ", "+", " ", "2", " ", "*", " ", "3", " ", "=",
                  "=", " ", "7", ";">>, "(a = ((1 + (2 * 3)) == 7))")

\* C28: unary binds tighter than factor, factor than term, term than comparison,
\* comparison than equality, equality than and, and than or, or than assignment;
\* the binary operators of a level group to the left and assignment to the right:
\* 2 * 4 + 3 is (2 * 4) + 3 and 1 + 2 * 6 is 1 + (2 * 6)
C28_PrecedenceAndAssociativity == []PrecedenceCases /\ [][ExpressionIsWellNested]_vars

C28_TermOfFactors ==
    /\ Parsing(<<"1", " ", "+", " ", "2", " ", "*", " ", "6", ";">>) /\ pc = "resolve"
    /\ Shape(statements[1].v.expr) = "(1 + (2 * 6))"

(***************************************************************************)
(* The chains of frames.                                                   *)
(***************************************************************************)
\* a chain that has frames and begins with the global frame
FromGlobal(chain) == Len(chain) >= 1 /\ chain[1] = GlobalFrame

Functions == {c \in DOMAIN st.cells : st.cells[c].t = "Function"}

\* the chains that the log holds: those before and after a block, a call and an
\* application, and the closures called
ChainsLogged ==
    UNION {{st.log[i].before, st.log[i].after} : i \in Events({"call", "apply"})}
    \cup {st.log[i].after : i \in Events({"block"})}
    \cup {st.log[i].closure : i \in Events({"call"})}

Undepthed(kinds) == {i \in Events(kinds) : IsNone(st.log[i].depth)}

\* C32: a variable reference or assignment without an entry in the depth table reads
\* or writes the global frame only, whatever same-named bindings the other frames of
\* the active chain hold; the read fails with UndefinedVariable when the global frame
\* lacks the name
C32_NoDepthMeansGlobal ==
    /\ \A i \in Undepthed({"get"}) :
          /\ st.log[i].outcome = (IF st.log[i].global THEN "Ok" ELSE "UndefinedVariable")
          /\ st.log[i].frame = GlobalFrame
    /\ \A i \in Undepthed({"assign"}) :
          /\ st.log[i].outcome \in {"Ok", "Created"}
          /\ st.log[i].frame = GlobalFrame

\* a was assigned without a depth while the block's frame of the closure held an a
\* too: the block's a is unchanged and the global a has the value
C32_ShadowedGlobalWritten ==
    /\ IsCorpus(SetA) /\ pc = "done"
    /\ st.output = <<"block", "set">>
    /\ \E i \in Undepthed({"assign"}) : st.log[i].shadow /\ st.log[i].name = "a"

(***************************************************************************)
(* Bound methods.                                                          *)
(***************************************************************************)
\* the frame that a get of a method added: the innermost one of the closure it yields
ThisFrame(e) == e.cellsAfter[e.bound].closure[Len(e.cellsAfter[e.bound].closure)]

\* the value is the method with one more frame at the end of its closure, a frame that
\* was not there before and binds this, and nothing else, to the receiver
BoundToReceiver(e) ==
    LET b == e.cellsAfter[e.bound] IN
    /\ e.bound \notin DOMAIN e.cells
    /\ b = [e.method EXCEPT !.closure = Append(@, ThisFrame(e))]
    /\ ThisFrame(e) \notin DOMAIN e.frames
    /\ DOMAIN e.framesAfter[ThisFrame(e)] = {"this"}
    /\ e.framesAfter[ThisFrame(e)]["this"] = e.object

\* every cell and every frame that was there is as it was: the method in the field
\* table, the class and its method table, the frames of the method's chain
BindingKeepsTheRest(e) ==
    /\ \A c \in DOMAIN e.cells : e.cellsAfter[c] = e.cells[c]
    /\ \A f \in DOMAIN e.frames : e.framesAfter[f] = e.frames[f]

\* C33: a property get that finds a function yields a new function value whose
\* closure is the method's chain and one more, innermost frame that binds only this to
\* the receiver; the stored method, the class and the frames of the chain are
\* unchanged, and two gets have two frames
C33_GetBindsThisInNewFrame ==
    /\ \A i \in Events({"bind"}) :
          BoundToReceiver(st.log[i]) /\ BindingKeepsTheRest(st.log[i])
    /\ \A i, j \in Events({"bind"}) :
          i # j => /\ ThisFrame(st.log[i]) # ThisFrame(st.log[j])
                   /\ st.log[i].bound # st.log[j].bound

\* one method was taken from two instances: each value has its own frame, one binding
\* this to the first instance, the other to the second
C33_OneMethodTwoReceivers ==
    \E i, j \in Events({"bind"}) :
        /\ st.log[i].method = st.log[j].method
        /\ st.log[i].object # st.log[j].object
        /\ st.frames[ThisFrame(st.log[i])]["this"] = st.log[i].object
        /\ st.frames[ThisFrame(st.log[j])]["this"] = st.log[j].object

(***************************************************************************)
(* The call of a class with an init method.                                *)
(***************************************************************************)
ClassCalls == {i \in Events({"apply"}) : st.log[i].callee.t = "Class"}

\* C34: the call of a class leaves the active chain as the caller had it, also when
\* init executes a return or fails, and a return in init ends init only: the call
\* yields the instance
C34_InitIsCallBoundary ==
    \A i \in ClassCalls :
        /\ st.log[i].after = st.log[i].before
        /\ ~st.log[i].result.ok => st.log[i].result.e.k # "Return"

\* the return in init left the call of Q as a Return, with init's two frames still on
\* the chain; it ended g, whose call caught it: after is not printed
C34_ReturnInInitEndsCaller ==
    /\ IsCorpus(InitReturns) /\ pc = "done" /\ result = "Ok"
    /\ st.output = <<"end">>
    /\ \E i \in ClassCalls :
          /\ ~st.log[i].result.ok /\ st.log[i].result.e.k = "Return"
          /\ Len(st.log[i].after) = Len(st.log[i].before) + 1

\* init failed with a runtime error and the run ended with init's frames on the chain
C34_ErrorInInitKeepsFrames ==
    /\ pc = "done" /\ result = "Evaluation"
    /\ \E i \in ClassCalls :
          /\ ~st.log[i].result.ok /\ st.log[i].result.e.k = "UndefinedVariable"
          /\ st.log[i].after # st.log[i].before
          /\ st.environments = st.log[i].after

(***************************************************************************)
(* After a loop that a break ended.                                        *)
(***************************************************************************)
\* the loop of a loop program with the tail var x = 1; print x; was left by a break
BrokenLoopWithTail ==
    /\ pc = "done" /\ source.kind = "loop" /\ source.tail
    /\ source.wrap \in {"top", "block"}
    /\ Events({"break"}) # {}

\* C35: after a loop that a break ended, var x = 1; print x; in the scope of the loop
\* prints 1, at the top level and in a block
C35_VarAfterBreakIsVisible ==
    BrokenLoopWithTail => result = "Ok" /\ st.output[Len(st.output)] = "1"

\* var i = 0; while (i < 2) { { print i; if (i >= 1) break; } i = i + 1; }
\* print "end"; var x = 1; print x; at the top level: the frame of the block that the break left
\* is still the innermost one, x is defined in it, and the read of x in the global
\* frame fails
C35_VarAfterBreakIsLost ==
    /\ BrokenLoopWithTail /\ source.form = "while" /\ source.wrap = "top"
    /\ source.init = "none" /\ source.cond /\ source.incr
    /\ result = "Evaluation" /\ errors = <<"Undefined variable x">>
    /\ st.output = <<"0", "1", "end">>
    /\ Len(st.environments) > 1
    /\ ContainsKey(st.frames[st.environments[Len(st.environments)]], "x")
    /\ ~ContainsKey(st.frames[GlobalFrame], "x")

\* the same in a block
C35_VarAfterBreakIsLostInBlock ==
    /\ BrokenLoopWithTail /\ source.form = "while" /\ source.wrap = "block"
    /\ result # "Ok"

(***************************************************************************)
(* Break and the boundaries of calls.                                      *)
(***************************************************************************)
\* C36: a Break is consumed by a loop of the function body that holds the break
\* statement: no call ends with a Break for a loop of its caller, and no run of a
\* program that resolve accepted ends with Break as its error
C36_BreakStaysInItsFunction ==
    /\ \A k \in Events({"call"}) : st.log[k].exit # "Break"
    /\ \A k \in ClassCalls : ~st.log[k].result.ok => st.log[k].result.e.k # "Break"
    /\ pc = "done" => \A i \in 1..Len(errors) : errors[i] # "Breaking loop"

\* the break in f ended the call of f with Break and then the loop of the caller: the
\* loop ran once, print i never ran
C36_BreakEndsCallersLoop ==
    /\ IsCorpus(BreakInCallee) /\ pc = "done" /\ result = "Ok"
    /\ st.output = <<"end">>
    /\ \E k \in Events({"call"}) :
          /\ st.log[k].exit = "Break"
          /\ \E j \in Events({"loop"}) : j > k /\ st.log[j].exit = "Ok"

\* var a = "global"; break; was accepted by resolve and the run ended with Break as
\* its error
C36_BreakReported ==
    /\ pc = "done" /\ result = "Evaluation" /\ errors = <<"Breaking loop">>
    /\ source.kind = "generated" /\ source.wrap = "top" /\ source.picks = <<11>>

(***************************************************************************)
(* A set whose value reads the instance.                                   *)
(***************************************************************************)
\* C37: a property set whose value reads a property of the same instance completes
\* and stores the value: o.a = o.b; print o.a; prints the 1 of o.b, and no run ends
\* in a panic with the cell of an instance mutably borrowed
C37_SetReadsItsInstance ==
    /\ IsCorpus(SetFromGet) /\ pc = "done" => result = "Ok" /\ st.output = <<"1">>
    /\ pc = "done" /\ result = "Panic" => st.held = {}

\* o.a = o.b; panicked in the get of o.b, with the cell of o held by the set: o has no
\* a and nothing is printed
C37_GetPanicsInsideSet ==
    /\ IsCorpus(SetFromGet) /\ pc = "done"
    /\ result = "Panic" /\ si = 4
    /\ st.output = <<>>
    /\ st.held = {Global("o")}
    /\ DOMAIN st.cells[Global("o")].fields = {"b"}

\* with the value read from another instance the set completes
C37_SetFromOtherInstance ==
    IsCorpus(SetFromOther) /\ pc = "done" /\ result = "Ok" /\ st.output = <<"1">>

(***************************************************************************)
(* The end of a comparison.                                                *)
(***************************************************************************)
\* C38: == and != end with a Boolean for every pair of values: print l == r; and
\* print l != r; print true or false, fun f() {} print f == f; prints true, and no run
\* ends in a stack overflow
C38_EqualityEndsWithBoolean ==
    /\ IsExpr("binary") /\ source.op \in {"EqualEqual", "BangEqual"} =>
          result = "Ok" /\ st.output[1] \in {"true", "false"}
    /\ IsCorpus(SelfEqual) /\ pc = "done" => result = "Ok" /\ st.output = <<"true">>
    /\ pc = "done" => result # "StackOverflow"

\* fun f() {} print f == f; the global frame of f's closure holds f, the comparison
\* of f with itself came back to itself and the run ended in a stack overflow
C38_SelfEqualOverflows ==
    /\ IsCorpus(SelfEqual) /\ pc = "done"
    /\ result = "StackOverflow" /\ st.output = <<>>
    /\ st.cells[Global("f")].closure = <<GlobalFrame>>

\* two values the comparison ends for: print 1 == 1; printed true
C38_NumbersCompared ==
    /\ IsExpr("binary") /\ source.op = "EqualEqual" /\ source.l = "1" /\ source.r = "1"
    /\ result = "Ok" /\ st.output[1] = "true"

(***************************************************************************)
(* Lists of arguments and of parameters.                                   *)
(***************************************************************************)
TwoArguments == <<"f", "(", "a", ",", " ", "b", ")", ";">>
TwoParameters == <<"f", "u", "n", " ", "f", "(", "a", ",", " ", "b", ")", " ", "{", "}">>

NamesOf(tokens) == [i \in 1..Len(tokens) |-> tokens[i].lexeme]
VariablesOf(exprs) ==
    [i \in 1..Len(exprs) |-> IF exprs[i].k = "Variable" THEN exprs[i].name.lexeme ELSE ""]

\* C39: f(a, b); parses to one call of f with the arguments a and b in this order
\* and fun f(a, b) {} to a function with the parameters a and b in this order; the
\* commas are taken and every token is used
C39_CommasSeparate ==
    /\ Parsing(TwoArguments) =>
          /\ Len(statements) = 1 /\ statements[1].ok
          /\ statements[1].v.k = "Expression" /\ statements[1].v.expr.k = "Call"
          /\ VariablesOf(statements[1].v.expr.args) = <<"a", "b">>
    /\ Parsing(TwoParameters) =>
          /\ Len(statements) = 1 /\ statements[1].ok
          /\ statements[1].v.k = "Function"
          /\ NamesOf(statements[1].v.params) = <<"a", "b">>

\* f(a, b); failed: after the argument a the comma was left in place and taken for
\* the start of the next argument
C39_CommaStartsArgument ==
    /\ Parsing(TwoArguments) /\ result = "Parser"
    /\ Len(statements) = 1 /\ ~statements[1].ok
    /\ statements[1].e = UnexpectedToken("Identifier", parser.tokens[4])
    /\ parser.tokens[4].typ = "Comma"
    /\ errors = <<"Expected identifier() on line 0, but got ),">>

\* fun f(a, b) {} failed: after the parameter a the comma was left in place, where an
\* identifier is required
C39_CommaIsNoParameter ==
    /\ Parsing(TwoParameters) /\ result = "Parser"
    /\ ~statements[1].ok
    /\ statements[1].e = UnexpectedToken("Identifier", parser.tokens[5])
    /\ parser.tokens[5].typ = "Comma"

\* one argument and one parameter parse
C39_OneArgumentParses ==
    /\ Parsing(<<"t", "s", "p", "2", "c", "u", "p", "(", "1", "5", ")", ";">>)
    /\ pc = "resolve"
    /\ Len(statements[1].v.expr.args) = 1

(***************************************************************************)
(* bytecode::interpret (bytecode/mod.rs): the items of the scanner are     *)
(* partitioned, the tokens compiled to a chunk, Return appended and the    *)
(* chunk run by the machine, one instruction a step.  The items are drawn  *)
(* from the tokens the compiler tells apart and a scanner error; what the  *)
(* run writes to stdout (the chunk, the trace, the value) is left out.     *)
(***************************************************************************)
MaxCode == 4

VmItems ==
    {Ok(NumTok(F64(1), 1)), Ok(NumTok(F64(2), 1)), Err(UnexpectedCharacter(1, "@"))}
    \cup {Ok(KwTok(typ, 1)) :
            typ \in {"Plus", "Minus", "Star", "Slash", "LeftParen", "RightParen"}}

VmSources == UNION {[1..n -> VmItems] : n \in 0..MaxCode}

\* Display for CompilerError; the expected Number is Number(0.0)
CompilerErrorDisplay(e) ==
    CASE e.k = "UnexpectedToken" ->
           "Expected " \o TokenTypeDisplay(e.expected, [num |-> F64(0)]) \o " on line "
           \o ToString(e.token.line) \o ", but got "
           \o TokenTypeDisplay(e.token.typ, e.token)
      [] e.k = "UnexpectedEndOfInput" -> "Unexpected end of input"

\* Display for RuntimeError of the machine
VmErrorDisplay(e) ==
    CASE e.k = "Unimplemented" -> e.msg
      [] e.k = "InvalidInstructionPointer" ->
           "Invalid instruction pointer: " \o ToString(e.ip)

VmInit == ScanInit

\* scanner::scan(source).partition_result(): with an error among the items the
\* errors are written and the run ends with Scanner
PartitionItems ==
    /\ pc = "read"
    /\ \E scanned \in VmSources :
          /\ items' = scanned
          /\ IF SelectSeq(scanned, IsErr) # <<>>
             THEN /\ errors' = [i \in 1..Len(SelectSeq(scanned, IsErr)) |->
                                   ScannerErrorDisplay(SelectSeq(scanned, IsErr)[i].e)]
                  /\ result' = "Scanner"
                  /\ pc' = "done"
                  /\ UNCHANGED tokenvec
             ELSE /\ tokenvec' = Values(scanned)
                  /\ pc' = "compile"
                  /\ UNCHANGED <<errors, result>>
    /\ UNCHANGED <<source, rs, ri, st, si, scanner, parser, statements>>
    /\ UNCHANGED <<compiled, chunk, vm, evaluation>>

\* compiler::compile(tokens.iter()): an error is written and ends the run with
\* Evaluation; else Return is written to the chunk and a new machine made
CompileTokens ==
    /\ pc = "compile"
    /\ \E c \in {Compile(tokenvec)} :
          /\ compiled' = Some(c)
          /\ IF c.ok
             THEN /\ chunk' = Write(c.v, OpCode("Return"), 0)
                  /\ vm' = VirtualMachineNew
                  /\ pc' = "run"
                  /\ UNCHANGED <<errors, result>>
             ELSE /\ errors' = <<CompilerErrorDisplay(c.e)>>
                  /\ result' = "Evaluation"
                  /\ pc' = "done"
                  /\ UNCHANGED <<chunk, vm>>
    /\ UNCHANGED <<source, rs, ri, st, si, front, tokenvec, evaluation>>

\* VirtualMachine::interpret(&chunk, true), one turn of its loop: the run goes
\* on, ends with the value or a RuntimeError, or the process panics
RunInstruction ==
    /\ pc = "run"
    /\ \E n \in {Instruction(vm, chunk)} :
          /\ vm' = n.vm
          /\ IF IsNone(n.r)
             THEN UNCHANGED <<pc, errors, result, evaluation>>
             ELSE /\ evaluation' = n.r
                  /\ pc' = "done"
                  /\ IF Unwrap(n.r).ok
                     THEN result' = "Ok" /\ UNCHANGED errors
                     ELSE IF Unwrap(n.r).e.k = "Panic"
                     THEN result' = "Panic" /\ UNCHANGED errors
                     ELSE /\ result' = "Evaluation"
                          /\ errors' = <<VmErrorDisplay(Unwrap(n.r).e)>>
    /\ UNCHANGED <<source, rs, ri, st, si, front, tokenvec, compiled, chunk>>

VmNext == PartitionItems \/ CompileTokens \/ RunInstruction

VmSpec == VmInit /\ [][VmNext]_vars

\* the tokens are nothing, or end with an operator that has no right operand
TrailingOperator(toks) ==
    Len(toks) > 0 /\ toks[Len(toks)].typ \in {"Plus", "Minus", "Star", "Slash"}
Malformed(toks) == toks = <<>> \/ TrailingOperator(toks)
Compiled == IsSome(compiled) /\ Unwrap(compiled).ok
AtReturn == pc = "run" /\ chunk.code[vm.ip + 1].op = "Return"

\* C40: whenever compile returns Ok, the run of the chunk with its Return never
\* pops an empty stack and comes to Return with exactly one value on the stack;
\* empty input and input that ends with an operator do not compile, the run
\* ending with the compiler's error before a machine is made
C40_CompiledChunkRunsClean ==
    /\ Compiled => result # "Panic"
    /\ Compiled /\ AtReturn => Len(vm.stack) = 1
    /\ IsSome(compiled) /\ Malformed(tokenvec) =>
          ~Compiled /\ result = "Evaluation" /\ pc = "done" /\ vm = VirtualMachineNew

\* `1 +` compiles to Constant, Add; with Return appended Add pops the 1 and
\* then an empty stack
C40_TrailingOperatorPanics ==
    /\ tokenvec = <<NumTok(F64(1), 1), KwTok("Plus", 1)>>
    /\ Compiled
    /\ chunk.code = <<Constant(0), OpCode("Add"), OpCode("Return")>>
    /\ pc = "done" /\ result = "Panic"
    /\ Unwrap(evaluation) = Err(Panic("Popped from empty stack"))
    /\ vm = [stack |-> <<>>, ip |-> 1]

\* no tokens compile to the empty chunk, whose Return pops an empty stack
C40_EmptyInputPanics ==
    /\ tokenvec = <<>>
    /\ Compiled /\ chunk.code = <<OpCode("Return")>>
    /\ pc = "done" /\ result = "Panic"

\* a whole expression runs to its value with one value on the stack at Return
C40_ExpressionRuns ==
    /\ tokenvec = <<NumTok(F64(1), 1), KwTok("Minus", 1), NumTok(F64(2), 1)>>
    /\ pc = "done" /\ result = "Ok"
    /\ Unwrap(evaluation) = Ok(Number(F64(-1)))
    /\ vm.stack = <<>>

====
